---- MODULE Spec2Model ----
(***************************************************************************)
(* Slack <-> Linear synchronisation (src/src/index.ts): the thread mapping *)
(* store, the chat message handler (Slack -> Linear comment) and the       *)
(* /linear/webhook handler (Linear -> Slack post).                         *)
(*                                                                         *)
(* Every handler is an async function: it runs without interruption up to  *)
(* its next `await`, and other handlers may run while it is suspended.     *)
(* One action of the model is one such uninterrupted piece: the awaited    *)
(* call returns (or throws) and the code up to the next await runs.        *)
(*                                                                         *)
(* Texts are TLA+ strings; JavaScript's undefined and null are the         *)
(* strings Undefined and Null.  The emoji and Korean labels of the posted  *)
(* texts are written in ASCII (TLA+ strings are ASCII).                    *)
(***************************************************************************)
EXTENDS Integers, Sequences, FiniteSets, Bags, TLC

VARIABLES
    threadMapFile,  \* contents of thread_map.json (THREAD_MAP_FILE)
    events,         \* the handler executions: a bag, two events may be alike
    comments,       \* Linear: the comments created through createComment
    chat            \* Slack: the messages of the workspace, oldest first

vars == <<threadMapFile, events, comments, chat>>

\* Number of events (chat messages, webhook deliveries) delivered in a run.
MaxEvents == 2

Undefined == "<undefined>"
Null == "<null>"

\* JavaScript truthiness of a string-or-undefined-or-null value.
Truthy(v) == v \notin {Undefined, Null, ""}

Range(s) == {s[i] : i \in DOMAIN s}

-----------------------------------------------------------------------------
(* Strings *)

\* String.prototype.includes: needle occurs in text at some position.
Includes(text, needle) ==
    \E i \in 1..(Len(text) - Len(needle) + 1) :
        SubSeq(text, i, i + Len(needle) - 1) = needle

Char(text, i) == SubSeq(text, i, i)

UpperChars == {"A", "B", "C", "D", "E", "F", "G", "H", "I", "J", "K", "L", "M",
               "N", "O", "P", "Q", "R", "S", "T", "U", "V", "W", "X", "Y", "Z"}
LowerChars == {"a", "b", "c", "d", "e", "f", "g", "h", "i", "j", "k", "l", "m",
               "n", "o", "p", "q", "r", "s", "t", "u", "v", "w", "x", "y", "z"}
DigitChars == {"0", "1", "2", "3", "4", "5", "6", "7", "8", "9"}

\* \w of a JavaScript regular expression.
IsWordChar(c) == c \in UpperChars \cup LowerChars \cup DigitChars \cup {"_"}
\* [A-Z0-9]
IsKeyChar(c) == c \in UpperChars \cup DigitChars
\* \d
IsDigit(c) == c \in DigitChars

DigitValue(c) ==
    CASE c = "0" -> 0 [] c = "1" -> 1 [] c = "2" -> 2 [] c = "3" -> 3
      [] c = "4" -> 4 [] c = "5" -> 5 [] c = "6" -> 6 [] c = "7" -> 7
      [] c = "8" -> 8 [] c = "9" -> 9

\* End (index of the last character) of the longest run of characters
\* satisfying the class that starts at i; i - 1 when the run is empty.
RECURSIVE KeyRunEnd(_, _)
KeyRunEnd(text, i) ==
    IF i <= Len(text) /\ IsKeyChar(Char(text, i)) THEN KeyRunEnd(text, i + 1) ELSE i - 1

RECURSIVE DigitRunEnd(_, _)
DigitRunEnd(text, i) ==
    IF i <= Len(text) /\ IsDigit(Char(text, i)) THEN DigitRunEnd(text, i + 1) ELSE i - 1

\* \b between positions i - 1 and i of text.
WordBoundary(text, i) ==
    LET before == i > 1 /\ i - 1 <= Len(text) /\ IsWordChar(Char(text, i - 1))
        after == i >= 1 /\ i <= Len(text) /\ IsWordChar(Char(text, i))
    IN before # after

\* The end of a match of /\b([A-Z0-9]+-\d+)\b/ starting at i, or 0.  Both
\* quantifiers are greedy, and a shorter run cannot match: the character
\* after a shortened [A-Z0-9]+ is not "-", and after a shortened \d+ there
\* is a digit, hence no \b.
IdentifierMatchEnd(text, i) ==
    LET k == KeyRunEnd(text, i)
        d == DigitRunEnd(text, k + 2)
    IN IF /\ WordBoundary(text, i)
          /\ k >= i
          /\ k + 1 <= Len(text) /\ Char(text, k + 1) = "-"
          /\ d >= k + 2
          /\ WordBoundary(text, d + 1)
       THEN d ELSE 0

\* Mutant of MatchIdentifier: the rightmost match is taken.
MatchIdentifier_last(text) ==
    LET starts == {i \in 1..Len(text) : IdentifierMatchEnd(text, i) > 0}
    IN IF starts = {} THEN Null
       ELSE LET i == CHOOSE s \in starts : \A t \in starts : s >= t
            IN SubSeq(text, i, IdentifierMatchEnd(text, i))

\* rootMessage.text.match(/\b([A-Z0-9]+-\d+)\b/): the capture of the
\* leftmost match, or Null.
MatchIdentifier(text) ==
    LET starts == {i \in 1..Len(text) : IdentifierMatchEnd(text, i) > 0}
    IN IF starts = {} THEN Null
       ELSE LET i == CHOOSE s \in starts : \A t \in starts : s <= t
            IN SubSeq(text, i, IdentifierMatchEnd(text, i))

\* String.prototype.lastIndexOf('-'), 1-based; 0 when there is none.
LastDashIndex(s) ==
    LET ds == {i \in 1..Len(s) : Char(s, i) = "-"}
    IN IF ds = {} THEN 0 ELSE CHOOSE i \in ds : \A j \in ds : j <= i

\* parseInt(s, 10) of a string of decimal digits.
RECURSIVE ParseInt(_)
ParseInt(s) ==
    IF Len(s) = 0 THEN 0
    ELSE 10 * ParseInt(SubSeq(s, 1, Len(s) - 1)) + DigitValue(Char(s, Len(s)))

\* Mutant of TeamKeyOf: the dash is taken into the team key.
TeamKeyOf_withDash(issueIdentifier) ==
    SubSeq(issueIdentifier, 1, LastDashIndex(issueIdentifier))

\* issueIdentifier.substring(0, lastDashIndex)
TeamKeyOf(issueIdentifier) ==
    SubSeq(issueIdentifier, 1, LastDashIndex(issueIdentifier) - 1)

\* parseInt(issueIdentifier.substring(lastDashIndex + 1), 10)
IssueNumberOf(issueIdentifier) ==
    ParseInt(SubSeq(issueIdentifier, LastDashIndex(issueIdentifier) + 1,
                    Len(issueIdentifier)))

-----------------------------------------------------------------------------
(* The two external services, as far as the handlers read them *)

\* Linear: issues, workflow states and users of the workspace.
LinearIssues ==
    { [id |-> "I1", identifier |-> "1SW-42", teamKey |-> "1SW", number |-> 42,
       stateId |-> "S2", assigneeId |-> "U1"],
      [id |-> "I2", identifier |-> "QA-7", teamKey |-> "QA", number |-> 7,
       stateId |-> "S1", assigneeId |-> Null] }

LinearStates == { [id |-> "S1", name |-> "Todo"], [id |-> "S2", name |-> "Done"] }

LinearUsers == { [id |-> "U1", name |-> "Ann Lee"] }

\* Slack: the users of the workspace.  real_name is optional in a profile.
SlackUsers ==
    { [id |-> "W1", real_name |-> "Ann Lee", display_name |-> "ann"],
      [id |-> "W2", real_name |-> Undefined, display_name |-> "bob"] }

\* Slack: the messages that exist when the process starts, oldest first.
\* thread_ts is Undefined for a message that is no reply.
InitialChat ==
    << [channel |-> "C1", ts |-> "100.1", thread_ts |-> Undefined,
        text |-> "Fix login [1SW-42] bug", bot_id |-> Undefined],
       [channel |-> "C2", ts |-> "100.2", thread_ts |-> Undefined,
        text |-> "lunch?", bot_id |-> Undefined],
       [channel |-> "C2", ts |-> "100.3", thread_ts |-> Undefined,
        text |-> "old ZZ-9 thing", bot_id |-> Undefined],
       [channel |-> "C1", ts |-> "100.4", thread_ts |-> "100.1",
        text |-> "1SW-42 is mine", bot_id |-> Undefined] >>

\* The timestamp Slack gives to the n-th message of the workspace.
SlackTs(n) ==
    IF n <= Len(InitialChat) THEN InitialChat[n].ts
    ELSE CASE n = 5 -> "100.5" [] n = 6 -> "100.6" [] n = 7 -> "100.7"
           [] n = 8 -> "100.8" [] n = 9 -> "100.9" [] n = 10 -> "101.0"
           [] n = 11 -> "101.1" [] n = 12 -> "101.2" [] OTHER -> "101.3"

NoMatch == [channel |-> Undefined, ts |-> Undefined]

\* search.messages({query: '"<identifier>"', sort: 'timestamp',
\* sort_dir: 'desc', count: 1}).messages.matches[0]: the most recent message
\* whose text holds the phrase, NoMatch when matches is empty.
SearchMessages(history, issueIdentifier) ==
    LET hits == {i \in DOMAIN history : Includes(history[i].text, issueIdentifier)}
    IN IF hits = {} THEN NoMatch
       ELSE LET i == CHOOSE h \in hits : \A g \in hits : g <= h
            IN [channel |-> history[i].channel, ts |-> history[i].ts]

\* conversations.replies({channel, ts, latest: ts, limit: 1, inclusive: true})
\* .messages[0]: the message of the channel with that timestamp.
RootMessages(history, channelId, threadTs) ==
    {m \in Range(history) : m.channel = channelId /\ m.ts = threadTs}

-----------------------------------------------------------------------------
(* ThreadMappingStore *)

\* An anchor {channelId, threadTs}; UndefinedAnchor is what indexing a
\* table with a key it does not hold gives (JavaScript's undefined).
UndefinedAnchor == [channelId |-> Undefined, threadTs |-> Undefined]

EmptyMap == [k \in {} |-> UndefinedAnchor]

\* thread_map.json.  state: "absent" (no file), "json" (the file holds the
\* serialised table `data`), "corrupt" (the text is no JSON), "unreadable"
\* (reading throws).  writable: writeFileSync succeeds.  JSON.stringify
\* followed by JSON.parse keeps a table of two-string objects as it is,
\* so `data` is the table itself.
FileOf(state, data) == [state |-> state, data |-> data, writable |-> TRUE]

\* Mutant of StoreLoad: the table of the file is returned whatever the
\* read or the parse did.
StoreLoad_noCatch(file) == file.data

\* load: {} unless the file exists and parses.
StoreLoad(file) == IF file.state = "json" THEN file.data ELSE EmptyMap

\* Mutant of StoreSave: nothing is written.
StoreSave_dropped(file, data) == file

\* save: the whole table replaces the file; a failed write is only logged.
StoreSave(file, data) ==
    IF file.writable THEN [file EXCEPT !.state = "json", !.data = data] ELSE file

\* get: data[issueIdentifier]
StoreGet(file, issueIdentifier) ==
    LET data == StoreLoad(file)
    IN IF issueIdentifier \in DOMAIN data THEN data[issueIdentifier]
       ELSE UndefinedAnchor

\* Mutant of StoreSet: a new anchor is merged into the entry it replaces
\* (the channel of an existing entry is kept).
StoreSet_merge(file, issueIdentifier, channelId, threadTs) ==
    LET data == StoreLoad(file)
        old == IF issueIdentifier \in DOMAIN data THEN data[issueIdentifier]
               ELSE UndefinedAnchor
        anchor == [channelId |-> IF old = UndefinedAnchor THEN channelId
                                 ELSE old.channelId,
                   threadTs |-> threadTs]
    IN StoreSave(file, [k \in DOMAIN data \cup {issueIdentifier} |->
                           IF k = issueIdentifier THEN anchor ELSE data[k]])

\* Mutant of StoreSet: the table that is saved starts empty instead of
\* being loaded.
StoreSet_fresh(file, issueIdentifier, channelId, threadTs) ==
    StoreSave(file, [k \in {issueIdentifier} |->
                        [channelId |-> channelId, threadTs |-> threadTs]])

\* set: data[issueIdentifier] = {channelId, threadTs}; save(data)
StoreSet(file, issueIdentifier, channelId, threadTs) ==
    LET data == StoreLoad(file)
        anchor == [channelId |-> channelId, threadTs |-> threadTs]
    IN StoreSave(file, [k \in DOMAIN data \cup {issueIdentifier} |->
                           IF k = issueIdentifier THEN anchor ELSE data[k]])

-----------------------------------------------------------------------------
(* Handler executions *)

\* One call a handler made, with what it was given and whether it returned
\* (ok) or threw.
Call(call, a, b, c, ok) == [call |-> call, a |-> a, b |-> b, c |-> c, ok |-> ok]

Calls(h, call) == {k \in DOMAIN h.log : h.log[k].call = call}

\* `${v}` of a template literal.
Str(v) == IF v = Undefined THEN "undefined" ELSE IF v = Null THEN "null" ELSE v

Handlers == BagToSet(events)

\* A handler starts.
Spawn(h) == events' = events (+) SetToBag({h})

\* Handler h runs to its next await and is then h2.
SetEvent(h, h2) == events' = (events (-) SetToBag({h})) (+) SetToBag({h2})

Running(h, kind, pc) == h.kind = kind /\ h.pc = pc

\* The issue Linear creates for the n-th createIssue call of the process
\* (the team's next numbers), in the team's first state and assigned to the
\* requester.
NewIssue(n) ==
    IF n = 1
    THEN [id |-> "I3", identifier |-> "1SW-43", teamKey |-> "1SW", number |-> 43,
          stateId |-> "S1", assigneeId |-> "U1"]
    ELSE IF n = 2
    THEN [id |-> "I4", identifier |-> "1SW-44", teamKey |-> "1SW", number |-> 44,
          stateId |-> "S1", assigneeId |-> "U1"]
    ELSE [id |-> "I5", identifier |-> "1SW-45", teamKey |-> "1SW", number |-> 45,
          stateId |-> "S1", assigneeId |-> "U1"]

\* The createIssue calls that succeeded so far.
CreatedCount ==
    Cardinality({h \in Handlers : h.kind = "command" /\ h.issueId # ""})

\* Linear: the issues that exist now.
LinearIssuesNow == LinearIssues \cup {NewIssue(n) : n \in 1..CreatedCount}

-----------------------------------------------------------------------------
(* POST /linear/webhook *)

\* The literal the webhook handler looks for in a comment body.
ProvenanceMarker == "(from Slack by"

WebhookBody(type, action, id, issueId, userId, stateId, assigneeId, body, prevS, prevA) ==
    [type |-> type, action |-> action,
     data |-> [id |-> id, issueId |-> issueId, userId |-> userId,
               stateId |-> stateId, assigneeId |-> assigneeId, body |-> body],
     updatedFrom |-> [stateId |-> prevS, assigneeId |-> prevA]]

IssueUpdate(id, stateId, prevStateId, assigneeId, prevAssigneeId) ==
    WebhookBody("Issue", "update", id, Undefined, Undefined, stateId, assigneeId,
                Undefined, prevStateId, prevAssigneeId)

CommentEvent(action, issueId, userId, body) ==
    WebhookBody("Comment", action, "K1", issueId, userId, Undefined, Undefined,
                body, Undefined, Undefined)

\* Comment bodies written in Linear by its users.
HumanCommentBodies ==
    { "looks good",
      "(from Slack by Zed) hi",
      "fwd: ok\n\n_(from Slack by Ann Lee)_",
      "seen (FROM SLACK BY Ann)",
      "(from Slack b" }

\* The deliveries Linear makes for what its users do.
WebhookDeliveries ==
    { IssueUpdate(id, "S2", "S1", Undefined, Undefined) : id \in {"I1", "I2"} }
    \cup { IssueUpdate("I1", "S2", "S2", Undefined, Undefined),
           IssueUpdate("I1", "S2", Undefined, "U1", Null),
           WebhookBody("Issue", "create", "I1", Undefined, Undefined, "S1",
                       Undefined, Undefined, Undefined, Undefined),
           WebhookBody("Project", "update", "P1", Undefined, Undefined, Undefined,
                       Undefined, Undefined, Undefined, Undefined),
           CommentEvent("update", "I1", "U1", "looks good") }
    \cup { CommentEvent("create", "I1", "U1", b) : b \in HumanCommentBodies }

\* Mutant of IsRelayedComment: the marker is looked for at the start of the
\* body only.
IsRelayedComment_prefixOnly(commentBody) ==
    /\ commentBody # Undefined
    /\ Len(commentBody) >= Len(ProvenanceMarker)
    /\ SubSeq(commentBody, 1, Len(ProvenanceMarker)) = ProvenanceMarker

\* Loop prevention: commentBody?.includes('(from Slack by')
IsRelayedComment(commentBody) ==
    commentBody # Undefined /\ Includes(commentBody, ProvenanceMarker)

\* Mutant of WebhookBranch: the assignee is looked at before the state.
WebhookBranch_assigneeFirst(body) ==
    IF body.type # "Issue" /\ body.type # "Comment" THEN "ignored"
    ELSE IF body.type = "Issue" /\ body.action = "update" THEN
        IF /\ Truthy(body.data.assigneeId)
           /\ body.updatedFrom.assigneeId # Undefined
        THEN "assignee"
        ELSE IF /\ Truthy(body.data.stateId)
                /\ Truthy(body.updatedFrom.stateId)
                /\ body.data.stateId # body.updatedFrom.stateId
        THEN "state"
        ELSE "ignored"
    ELSE IF body.type = "Comment" /\ body.action = "create" THEN
        IF IsRelayedComment(body.data.body) THEN "relayed" ELSE "comment"
    ELSE "ignored"

\* The branch the code before the first await takes.
WebhookBranch(body) ==
    IF body.type # "Issue" /\ body.type # "Comment" THEN "ignored"
    ELSE IF body.type = "Issue" /\ body.action = "update" THEN
        IF /\ Truthy(body.data.stateId)
           /\ Truthy(body.updatedFrom.stateId)
           /\ body.data.stateId # body.updatedFrom.stateId
        THEN "state"
        ELSE IF /\ Truthy(body.data.assigneeId)
                /\ body.updatedFrom.assigneeId # Undefined
        THEN "assignee"
        ELSE "ignored"
    ELSE IF body.type = "Comment" /\ body.action = "create" THEN
        IF IsRelayedComment(body.data.body) THEN "relayed" ELSE "comment"
    ELSE "ignored"

\* Mutant of Acknowledge: no response is sent on entry.
Acknowledge_missing(log) == log

\* res.status(200).send()
Acknowledge(log) == Append(log, Call("res.send", "200", "", "", TRUE))

StateChangeText(stateName) == "*state changed*: " \o Str(stateName)
AssigneeChangeText(assigneeName) == "*assignee changed*: " \o assigneeName
NewCommentText(userName, commentBody) ==
    "*new comment (" \o userName \o ")*:\n" \o Str(commentBody)

\* Mutant of WebhookEntry: the marker is looked at only after the tracker
\* lookups.
WebhookEntry_lookupFirst(body, relay) ==
    LET branch == WebhookBranch(body)
    IN [kind |-> "webhook", req |-> body, relay |-> relay,
        branch |-> branch,
        pc |-> IF branch = "ignored" THEN "done" ELSE "lookup",
        issueIdentifier |-> "", messageText |-> "",
        channelId |-> Undefined, threadTs |-> Undefined,
        log |-> Acknowledge(<<>>)]

\* The handler from its entry to its first await (or its return).
WebhookEntry(body, relay) ==
    LET branch == WebhookBranch(body)
    IN [kind |-> "webhook", req |-> body, relay |-> relay,
        branch |-> branch,
        pc |-> IF branch \in {"ignored", "relayed"} THEN "done" ELSE "lookup",
        issueIdentifier |-> "", messageText |-> "",
        channelId |-> Undefined, threadTs |-> Undefined,
        log |-> Acknowledge(<<>>)]

\* A delivery arrives: for something a Linear user did, or (relay) for a
\* comment that this process created.
WebhookReceive ==
    /\ BagCardinality(events) < MaxEvents
    /\ \/ \E body \in WebhookDeliveries :
            Spawn(WebhookEntry(body, FALSE))
       \/ \E k \in DOMAIN comments :
            Spawn(WebhookEntry(CommentEvent("create", comments[k].issueId, "U1",
                                            comments[k].body), TRUE))
    /\ UNCHANGED <<threadMapFile, comments, chat>>

\* Mutant of AfterLookup: the search is made whatever the store holds.
AfterLookup_searchFirst(h, issue, messageText, log) ==
    LET mapped == StoreGet(threadMapFile, issue.identifier)
    IN [h EXCEPT !.issueIdentifier = issue.identifier,
                 !.messageText = messageText,
                 !.log = Append(log, Call("store.get", issue.identifier,
                                          mapped.channelId, mapped.threadTs, TRUE)),
                 !.pc = "search"]

\* After the tracker lookups: ThreadMappingStore.get, then either the post
\* to the mapped thread or the search.
AfterLookup(h, issue, messageText, log) ==
    LET mapped == StoreGet(threadMapFile, issue.identifier)
        log2 == Append(log, Call("store.get", issue.identifier,
                                 mapped.channelId, mapped.threadTs, TRUE))
        h2 == [h EXCEPT !.issueIdentifier = issue.identifier,
                        !.messageText = messageText, !.log = log2]
    IN IF mapped # UndefinedAnchor
       THEN [h2 EXCEPT !.channelId = mapped.channelId,
                       !.threadTs = mapped.threadTs, !.pc = "post"]
       ELSE [h2 EXCEPT !.pc = "search"]

\* linearClient.issue(id), then issue.state, issue.assignee or
\* linearClient.user(userId); each may throw.
WebhookLookup(h) ==
    /\ Running(h, "webhook", "lookup")
    /\ LET data == h.req.data
           issueId == IF h.branch = "comment" THEN data.issueId ELSE data.id
           second == CASE h.branch = "state" -> "linear.issue.state"
                       [] h.branch = "assignee" -> "linear.issue.assignee"
                       [] OTHER -> "linear.user"
           found == {x \in LinearIssuesNow : x.id = issueId}
           log1(ok) == Append(h.log, Call("linear.issue", issueId, "", "", ok))
           log2(ok) == Append(log1(TRUE), Call(second, "", "", "", ok))
       IN \/ SetEvent(h, [h EXCEPT !.pc = "done", !.log = log1(FALSE)])
          \/ /\ found # {}
             /\ SetEvent(h, [h EXCEPT !.pc = "done", !.log = log2(FALSE)])
          \/ \E issue \in found :
                CASE h.branch = "state" ->
                        \E st \in {s \in LinearStates : s.id = issue.stateId} :
                            SetEvent(h, AfterLookup(h, issue,
                                        StateChangeText(st.name), log2(TRUE)))
                  [] h.branch = "assignee" ->
                        LET as == {u \in LinearUsers : u.id = issue.assigneeId}
                        IN \/ /\ as = {}
                              /\ SetEvent(h, AfterLookup(h, issue,
                                        AssigneeChangeText("Unassigned"), log2(TRUE)))
                           \/ \E u \in as :
                                SetEvent(h, AfterLookup(h, issue,
                                        AssigneeChangeText(u.name), log2(TRUE)))
                  [] OTHER ->
                        \E u \in {u \in LinearUsers : u.id = data.userId} :
                            SetEvent(h, AfterLookup(h, issue,
                                        NewCommentText(u.name, data.body), log2(TRUE)))
    /\ UNCHANGED <<threadMapFile, comments, chat>>

\* Mutant of ThreadFound: the post is made without a thread.
ThreadFound_always(channelId, threadTs) == TRUE

\* if (channelId && threadTs): a thread to post to was found.
ThreadFound(channelId, threadTs) == Truthy(channelId) /\ Truthy(threadTs)

\* search.messages returns (or throws): the first match, if any, becomes
\* the thread and is written to the store; without a thread the handler
\* ends.
WebhookSearch(h) ==
    /\ Running(h, "webhook", "search")
    /\ LET match == SearchMessages(chat, h.issueIdentifier)
           log1(ok) == Append(h.log, Call("search.messages", h.issueIdentifier,
                                IF ok THEN match.channel ELSE Undefined,
                                IF ok THEN match.ts ELSE Undefined, ok))
           writeBack == match # NoMatch /\ Truthy(match.channel) /\ Truthy(match.ts)
           log2 == IF writeBack
                   THEN Append(log1(TRUE), Call("store.set", h.issueIdentifier,
                                                match.channel, match.ts, TRUE))
                   ELSE log1(TRUE)
       IN \/ /\ SetEvent(h, [h EXCEPT !.pc = "done", !.log = log1(FALSE)])
             /\ UNCHANGED threadMapFile
          \/ /\ threadMapFile' =
                    IF writeBack
                    THEN StoreSet(threadMapFile, h.issueIdentifier, match.channel, match.ts)
                    ELSE threadMapFile
             /\ SetEvent(h, [h EXCEPT
                    !.channelId = match.channel, !.threadTs = match.ts, !.log = log2,
                    !.pc = IF ThreadFound(match.channel, match.ts) THEN "post" ELSE "done"])
    /\ UNCHANGED <<comments, chat>>

\* A message the bot posted, as Slack stores it.
BotMessage(channelId, threadTs, text) ==
    [channel |-> channelId, ts |-> SlackTs(Len(chat) + 1), thread_ts |-> threadTs,
     text |-> text, bot_id |-> "B0"]

\* Mutant of WebhookPost: after a throw the post is made again.
WebhookPost_retry(h) ==
    /\ Running(h, "webhook", "post")
    /\ LET log1(ok) == Append(h.log, Call("chat.postMessage", h.channelId,
                                          h.threadTs, h.messageText, ok))
       IN \/ /\ SetEvent(h, [h EXCEPT !.log = log1(FALSE)])
             /\ UNCHANGED chat
          \/ /\ SetEvent(h, [h EXCEPT !.pc = "done", !.log = log1(TRUE)])
             /\ chat' = Append(chat, BotMessage(h.channelId, h.threadTs, h.messageText))
    /\ UNCHANGED <<threadMapFile, comments>>

\* chat.postMessage({channel, thread_ts, text}) returns or throws.
WebhookPost(h) ==
    /\ Running(h, "webhook", "post")
    /\ LET log1(ok) == Append(h.log, Call("chat.postMessage", h.channelId,
                                          h.threadTs, h.messageText, ok))
       IN \/ /\ SetEvent(h, [h EXCEPT !.pc = "done", !.log = log1(FALSE)])
             /\ UNCHANGED chat
          \/ /\ SetEvent(h, [h EXCEPT !.pc = "done", !.log = log1(TRUE)])
             /\ chat' = Append(chat, BotMessage(h.channelId, h.threadTs, h.messageText))
    /\ UNCHANGED <<threadMapFile, comments>>

-----------------------------------------------------------------------------
(* app.message: Slack -> Linear comment *)

SlackMessage(channelId, threadTs, text, user, subtype, botId) ==
    [channel |-> channelId, thread_ts |-> threadTs, text |-> text, user |-> user,
     subtype |-> subtype, bot_id |-> botId]

\* The messages written in Slack while the process runs.
MessageDeliveries ==
    { SlackMessage("C1", "100.1", "looks good", u, Undefined, Undefined) :
        u \in {"W1", "W2"} }
    \cup { SlackMessage("C1", "100.1", "", "W1", Undefined, Undefined),
           SlackMessage("C1", "100.1", "looks good", "W1", "thread_broadcast", Undefined),
           SlackMessage("C1", "100.1", "looks good", "W1", Undefined, "B7"),
           SlackMessage("C1", Undefined, "re 1SW-42", "W1", Undefined, Undefined),
           SlackMessage("C2", "100.2", "pizza", "W1", Undefined, Undefined),
           SlackMessage("C2", "100.3", "still open?", "W1", Undefined, Undefined) }

\* Mutant of ProvenanceSuffix: another wording of the suffix.
ProvenanceSuffix_reworded(userName) == "\n\n_(via Slack: " \o userName \o ")_"

\* The suffix that marks a comment as relayed from Slack.
ProvenanceSuffix(userName) == "\n\n_(from Slack by " \o userName \o ")_"

\* `${text}\n\n_(from Slack by ${userName})_`
RelayedCommentBody(text, userName) == text \o ProvenanceSuffix(userName)

\* Mutant of UserNameOf: no fallback for a profile without real_name.
UserNameOf_noFallback(slackUser) == Str(slackUser.real_name)

\* userInfo.user?.real_name || "Slack User"
UserNameOf(slackUser) ==
    IF Truthy(slackUser.real_name) THEN slackUser.real_name ELSE "Slack User"

\* Mutant of MessageIgnored: bot_id is not looked at.
MessageIgnored_noBotCheck(message) ==
    \/ Truthy(message.subtype)
    \/ ~Truthy(message.thread_ts)

\* Mutant of MessageIgnored: a bot message is ignored only when it has a
\* subtype too.
MessageIgnored_botSubtypeOnly(message) ==
    \/ Truthy(message.subtype) /\ Truthy(message.bot_id)
    \/ ~Truthy(message.thread_ts)

\* Steps 1 and 2: bot and subtype messages, and messages outside a thread,
\* are ignored.
MessageIgnored(message) ==
    \/ Truthy(message.subtype)
    \/ Truthy(message.bot_id)
    \/ ~Truthy(message.thread_ts)

\* The handler from its entry to its first await (or its return).
MessageEntry(message) ==
    [kind |-> "message", message |-> message,
     pc |-> IF MessageIgnored(message) THEN "done" ELSE "replies",
     issueIdentifier |-> "", teamKey |-> "", issueNumber |-> 0,
     issueId |-> "", userName |-> "",
     log |-> <<>>]

\* Someone writes a message; Slack stores it and delivers the event.
MessageReceive ==
    /\ BagCardinality(events) < MaxEvents
    /\ \E message \in MessageDeliveries :
        /\ Spawn(MessageEntry(message))
        /\ chat' = Append(chat,
              [channel |-> message.channel, ts |-> SlackTs(Len(chat) + 1),
               thread_ts |-> message.thread_ts, text |-> message.text,
               bot_id |-> message.bot_id])
    /\ UNCHANGED <<threadMapFile, comments>>

\* conversations.replies returns the root message: the identifier is
\* taken from its text and split at its last dash.
MessageReplies(h) ==
    /\ Running(h, "message", "replies")
    /\ LET log1(ok) == Append(h.log, Call("conversations.replies", h.message.channel,
                                          h.message.thread_ts, "", ok))
           roots == RootMessages(chat, h.message.channel, h.message.thread_ts)
       IN \/ SetEvent(h, [h EXCEPT !.pc = "done", !.log = log1(FALSE)])
          \/ /\ roots = {}
             /\ SetEvent(h, [h EXCEPT !.pc = "done", !.log = log1(TRUE)])
          \/ \E rootMessage \in roots :
                LET match == IF Truthy(rootMessage.text)
                             THEN MatchIdentifier(rootMessage.text) ELSE Null
                IN IF match = Null
                   THEN SetEvent(h, [h EXCEPT !.pc = "done", !.log = log1(TRUE)])
                   ELSE SetEvent(h, [h EXCEPT !.pc = "issues", !.log = log1(TRUE),
                            !.issueIdentifier = match,
                            !.teamKey = TeamKeyOf(match),
                            !.issueNumber = IssueNumberOf(match)])
    /\ UNCHANGED <<threadMapFile, comments, chat>>

\* linearClient.issues({filter: {number: {eq}, team: {key: {eq}}}}).nodes
IssuesByKeyAndNumber(teamKey, issueNumber) ==
    {x \in LinearIssuesNow : x.number = issueNumber /\ x.teamKey = teamKey}

MessageIssues(h) ==
    /\ Running(h, "message", "issues")
    /\ LET log1(ok) == Append(h.log, Call("linear.issues", h.teamKey, "", "", ok))
           nodes == IssuesByKeyAndNumber(h.teamKey, h.issueNumber)
       IN \/ SetEvent(h, [h EXCEPT !.pc = "done", !.log = log1(FALSE)])
          \/ /\ nodes = {}
             /\ SetEvent(h, [h EXCEPT !.pc = "done", !.log = log1(TRUE)])
          \/ \E issue \in nodes :
                SetEvent(h, [h EXCEPT !.pc = "userinfo", !.log = log1(TRUE),
                                      !.issueId = issue.id])
    /\ UNCHANGED <<threadMapFile, comments, chat>>

\* client.users.info({user}) returns (or throws: unknown user, no
\* connection); a message without text ends here.
MessageUserInfo(h) ==
    /\ Running(h, "message", "userinfo")
    /\ LET log1(ok) == Append(h.log, Call("users.info", h.message.user, "", "", ok))
       IN \/ SetEvent(h, [h EXCEPT !.pc = "done", !.log = log1(FALSE)])
          \/ \E u \in {u \in SlackUsers : u.id = h.message.user} :
                SetEvent(h, [h EXCEPT !.log = log1(TRUE), !.userName = UserNameOf(u),
                        !.pc = IF Truthy(h.message.text) THEN "comment" ELSE "done"])
    /\ UNCHANGED <<threadMapFile, comments, chat>>

\* linearClient.createComment({issueId, body}) returns or throws.
MessageComment(h) ==
    /\ Running(h, "message", "comment")
    /\ LET body == RelayedCommentBody(h.message.text, h.userName)
           log1(ok) == Append(h.log, Call("linear.createComment", h.issueId, body, "", ok))
       IN \/ /\ SetEvent(h, [h EXCEPT !.pc = "done", !.log = log1(FALSE)])
             /\ UNCHANGED comments
          \/ /\ SetEvent(h, [h EXCEPT !.pc = "done", !.log = log1(TRUE)])
             /\ comments' = Append(comments,
                    [issueId |-> h.issueId, body |-> body, message |-> h.message])
    /\ UNCHANGED <<threadMapFile, chat>>

-----------------------------------------------------------------------------
(* The create-issue slash command: issue, root message, mapping, thread *)

\* process.env.LINEAR_TEAM_ID: a team identifier, resolved through
\* linearClient.team because it is at most 5 characters long.
LinearTeamId == "1SW"

LinearTeams == { [id |-> "T1", key |-> "1SW"] }

\* profile.email of the Slack users, as far as they have one.
SlackEmailOf(userId) == IF userId = "W1" THEN "ann@x.io" ELSE Undefined

\* getLinearUserByEmail: users({filter: {email: {eq}}}).nodes
LinearUsersByEmail(email) ==
    {u \in LinearUsers : u.id = "U1" /\ email = "ann@x.io"}

WhiteSpace == {" ", "\n"}

RECURSIVE TrimStart(_)
TrimStart(s) ==
    IF Len(s) > 0 /\ Char(s, 1) \in WhiteSpace
    THEN TrimStart(SubSeq(s, 2, Len(s))) ELSE s

RECURSIVE TrimEnd(_)
TrimEnd(s) ==
    IF Len(s) > 0 /\ Char(s, Len(s)) \in WhiteSpace
    THEN TrimEnd(SubSeq(s, 1, Len(s) - 1)) ELSE s

\* String.prototype.trim
Trim(s) == TrimEnd(TrimStart(s))

SlashCommand(text, userId, channelId) ==
    [text |-> text, user_id |-> userId, channel_id |-> channelId]

\* The commands typed while the process runs.
CommandDeliveries ==
    { SlashCommand(" Fix [API] crash ", "W1", "C1"),
      SlashCommand("  ", "W1", "C1"),
      SlashCommand("Fix [API] crash", "W2", "C2") }

\* `${title} (${issue.identifier})`
RootMessageText(title, issueIdentifier) == title \o " (" \o issueIdentifier \o ")"

ThreadMessageText == "tools"

\* The handler from its entry to its first await, ack().
CommandEntry(command) ==
    [kind |-> "command", command |-> command, pc |-> "ack",
     title |-> "", userEmail |-> "", issueId |-> "", issueIdentifier |-> "",
     teamId |-> LinearTeamId,
     rootTs |-> Undefined, reply |-> "", log |-> <<>>]

\* In a run with commands: the number of commands and webhook deliveries,
\* of commands, and of messages written by users.
MaxCmdEvents == 2
MaxCommands == 1
MaxMentions == 1

IsCommand(h) == h.kind = "command"

\* The handlers of commands and of webhook deliveries, with their number.
CmdEventCount ==
    LET hs == {h \in Handlers : h.kind # "message"}
    IN BagCardinality(events) - BagCardinality([h \in Handlers \ hs |-> events[h]])

CommandReceive ==
    /\ CmdEventCount < MaxCmdEvents
    /\ Cardinality({h \in Handlers : IsCommand(h)}) < MaxCommands
    /\ \E command \in CommandDeliveries : Spawn(CommandEntry(command))
    /\ UNCHANGED <<threadMapFile, comments, chat>>

\* The handler awaits respond(...) and returns after it: on a refused
\* command, and in the catch block.
CommandResponds(h, log, reply) ==
    SetEvent(h, [h EXCEPT !.pc = "respond", !.log = log, !.reply = reply])

\* ack() returns: the title is trimmed, an empty one is refused.
CommandAck(h) ==
    /\ Running(h, "command", "ack")
    /\ LET log1(ok) == Append(h.log, Call("ack", "", "", "", ok))
           title == Trim(h.command.text)
       IN \/ SetEvent(h, [h EXCEPT !.pc = "done", !.log = log1(FALSE)])
          \/ IF ~Truthy(title)
             THEN CommandResponds(h, log1(TRUE), "no title")
             ELSE SetEvent(h, [h EXCEPT !.pc = "userinfo", !.log = log1(TRUE),
                                        !.title = title])
    /\ UNCHANGED <<threadMapFile, comments, chat>>

\* client.users.info returns: a profile without email is refused.
CommandUserInfo(h) ==
    /\ Running(h, "command", "userinfo")
    /\ LET log1(ok) == Append(h.log, Call("users.info", h.command.user_id, "", "", ok))
           userEmail == SlackEmailOf(h.command.user_id)
       IN \/ CommandResponds(h, log1(FALSE), "error")
          \/ IF ~Truthy(userEmail)
             THEN CommandResponds(h, log1(TRUE), "no email")
             ELSE SetEvent(h, [h EXCEPT !.pc = "viewer", !.log = log1(TRUE),
                                        !.userEmail = userEmail])
    /\ UNCHANGED <<threadMapFile, comments, chat>>

\* getLinearUserByEmail, first await: linearClient.viewer
CommandViewer(h) ==
    /\ Running(h, "command", "viewer")
    /\ LET log1(ok) == Append(h.log, Call("linear.viewer", "", "", "", ok))
       IN \/ CommandResponds(h, log1(FALSE), "error")
          \/ SetEvent(h, [h EXCEPT !.pc = "linearUser", !.log = log1(TRUE)])
    /\ UNCHANGED <<threadMapFile, comments, chat>>

\* getLinearUserByEmail, second await: users(...) returns; then the team id
\* of the environment is looked at.
CommandLinearUser(h) ==
    /\ Running(h, "command", "linearUser")
    /\ LET log1(ok) == Append(h.log, Call("linear.users", h.userEmail, "", "", ok))
       IN \/ CommandResponds(h, log1(FALSE), "error")
          \/ IF LinearUsersByEmail(h.userEmail) = {}
             THEN CommandResponds(h, log1(TRUE), "no linear user")
             ELSE IF ~Truthy(h.teamId)
             THEN CommandResponds(h, log1(TRUE), "no team id")
             ELSE SetEvent(h, [h EXCEPT !.log = log1(TRUE),
                        !.pc = IF Len(h.teamId) <= 5 THEN "team" ELSE "cycle"])
    /\ UNCHANGED <<threadMapFile, comments, chat>>

\* linearClient.team(teamId) returns or throws (inner try).
CommandTeam(h) ==
    /\ Running(h, "command", "team")
    /\ LET log1(ok) == Append(h.log, Call("linear.team", h.teamId, "", "", ok))
       IN \/ CommandResponds(h, log1(FALSE), "no team")
          \/ IF {t \in LinearTeams : t.key = h.teamId} = {}
             THEN CommandResponds(h, log1(TRUE), "no team")
             ELSE SetEvent(h, [h EXCEPT !.pc = "cycle", !.log = log1(TRUE)])
    /\ UNCHANGED <<threadMapFile, comments, chat>>

\* getCurrentCycle, first query: the active cycle, if the team has one.
CommandCycle(h) ==
    /\ Running(h, "command", "cycle")
    /\ LET log1(ok) == Append(h.log, Call("linear.cycles", "active", "", "", ok))
       IN \/ CommandResponds(h, log1(FALSE), "error")
          \/ \E active \in BOOLEAN :
                SetEvent(h, [h EXCEPT !.log = log1(TRUE),
                        !.pc = IF active THEN "createIssue" ELSE "upcoming"])
    /\ UNCHANGED <<threadMapFile, comments, chat>>

\* getCurrentCycle, second query: the upcoming cycle, or none.
CommandUpcomingCycle(h) ==
    /\ Running(h, "command", "upcoming")
    /\ LET log1(ok) == Append(h.log, Call("linear.cycles", "upcoming", "", "", ok))
       IN \/ CommandResponds(h, log1(FALSE), "error")
          \/ SetEvent(h, [h EXCEPT !.pc = "createIssue", !.log = log1(TRUE)])
    /\ UNCHANGED <<threadMapFile, comments, chat>>

\* linearClient.createIssue returns: Linear has created the issue.
CommandCreateIssue(h) ==
    /\ Running(h, "command", "createIssue")
    /\ LET issue == NewIssue(CreatedCount + 1)
           log1(ok) == Append(h.log, Call("linear.createIssue", h.title,
                                          IF ok THEN issue.id ELSE "", "", ok))
       IN \/ CommandResponds(h, log1(FALSE), "error")
          \/ SetEvent(h, [h EXCEPT !.pc = "issue", !.log = log1(TRUE),
                                   !.issueId = issue.id])
    /\ UNCHANGED <<threadMapFile, comments, chat>>

\* issueCreate.issue returns the created issue.
CommandIssue(h) ==
    /\ Running(h, "command", "issue")
    /\ LET log1(ok) == Append(h.log, Call("linear.issue", h.issueId, "", "", ok))
       IN \/ CommandResponds(h, log1(FALSE), "error")
          \/ \E issue \in {x \in LinearIssuesNow : x.id = h.issueId} :
                SetEvent(h, [h EXCEPT !.pc = "users", !.log = log1(TRUE),
                                      !.issueIdentifier = issue.identifier])
    /\ UNCHANGED <<threadMapFile, comments, chat>>

\* linearClient.users() returns the options of the assignee selector.
CommandUsers(h) ==
    /\ Running(h, "command", "users")
    /\ LET log1(ok) == Append(h.log, Call("linear.users", "", "", "", ok))
       IN \/ CommandResponds(h, log1(FALSE), "error")
          \/ SetEvent(h, [h EXCEPT !.pc = "rootPost", !.log = log1(TRUE)])
    /\ UNCHANGED <<threadMapFile, comments, chat>>

\* Mutant of CommandSavesMapping: the mapping is not written.
CommandSavesMapping_skipped(file, issueIdentifier, channelId, rootTs) == file

\* Save Mapping: ThreadMappingStore.set(issue.identifier, command.channel_id,
\* rootMessage.ts)
CommandSavesMapping(file, issueIdentifier, channelId, rootTs) ==
    StoreSet(file, issueIdentifier, channelId, rootTs)

\* Mutant of CommandRootPost: a throw of the post is not looked at and the
\* handler goes on to the thread message.
CommandRootPost_goesOn(h) ==
    /\ Running(h, "command", "rootPost")
    /\ LET text == RootMessageText(h.title, h.issueIdentifier)
           rootMessage == BotMessage(h.command.channel_id, Undefined, text)
           log1(ok) == Append(h.log, Call("chat.postMessage", h.command.channel_id,
                                          Undefined, text, ok))
           log2 == Append(log1(TRUE), Call("store.set", h.issueIdentifier,
                                           h.command.channel_id, rootMessage.ts, TRUE))
       IN \/ /\ SetEvent(h, [h EXCEPT !.pc = "threadPost", !.log = log1(FALSE)])
             /\ UNCHANGED <<threadMapFile, chat>>
          \/ /\ chat' = Append(chat, rootMessage)
             /\ threadMapFile' = CommandSavesMapping(threadMapFile, h.issueIdentifier,
                                        h.command.channel_id, rootMessage.ts)
             /\ SetEvent(h, [h EXCEPT !.pc = "threadPost", !.log = log2,
                                      !.rootTs = rootMessage.ts])
    /\ UNCHANGED comments

\* chat.postMessage of the root message throws, or returns without a ts
\* (the handler throws), or returns: its ts is stored as the thread of the
\* issue, then the thread message is sent.
CommandRootPost(h) ==
    /\ Running(h, "command", "rootPost")
    /\ LET text == RootMessageText(h.title, h.issueIdentifier)
           rootMessage == BotMessage(h.command.channel_id, Undefined, text)
           log1(ok) == Append(h.log, Call("chat.postMessage", h.command.channel_id,
                                          Undefined, text, ok))
           log2 == Append(log1(TRUE), Call("store.set", h.issueIdentifier,
                                           h.command.channel_id, rootMessage.ts, TRUE))
       IN \/ /\ CommandResponds(h, log1(FALSE), "error")
             /\ UNCHANGED <<threadMapFile, chat>>
          \/ /\ CommandResponds(h, log1(TRUE), "error")
             /\ chat' = Append(chat, rootMessage)
             /\ UNCHANGED threadMapFile
          \/ /\ chat' = Append(chat, rootMessage)
             /\ threadMapFile' = CommandSavesMapping(threadMapFile, h.issueIdentifier,
                                        h.command.channel_id, rootMessage.ts)
             /\ SetEvent(h, [h EXCEPT !.pc = "threadPost", !.log = log2,
                                      !.rootTs = rootMessage.ts])
    /\ UNCHANGED comments

\* chat.postMessage of the thread message returns.
CommandThreadPost(h) ==
    /\ Running(h, "command", "threadPost")
    /\ LET log1(ok) == Append(h.log, Call("chat.postMessage", h.command.channel_id,
                                          h.rootTs, ThreadMessageText, ok))
       IN \/ /\ CommandResponds(h, log1(FALSE), "error")
             /\ UNCHANGED chat
          \/ /\ SetEvent(h, [h EXCEPT !.pc = "done", !.log = log1(TRUE)])
             /\ chat' = Append(chat, BotMessage(h.command.channel_id, h.rootTs,
                                                ThreadMessageText))
    /\ UNCHANGED <<threadMapFile, comments>>

\* respond(...) returns or throws; the handler is over either way.
CommandRespond(h) ==
    /\ Running(h, "command", "respond")
    /\ \E ok \in BOOLEAN :
          SetEvent(h, [h EXCEPT !.pc = "done",
                         !.log = Append(h.log, Call("respond", h.reply, "", "", ok))])
    /\ UNCHANGED <<threadMapFile, comments, chat>>

\* Linear delivers the webhook of a state change of an issue that exists.
CmdWebhookReceive ==
    /\ CmdEventCount < MaxCmdEvents
    /\ \E issue \in LinearIssuesNow \ {x \in LinearIssues : x.id = "I2"} :
          Spawn(WebhookEntry(IssueUpdate(issue.id, "S2", "S1", Undefined, Undefined),
                             FALSE))
    /\ UNCHANGED <<threadMapFile, comments, chat>>

\* Someone mentions an issue in a message outside any thread; Slack stores
\* the message and delivers the event.
CmdMessageReceive ==
    /\ BagCardinality(events) - CmdEventCount < MaxMentions
    /\ \E issue \in LinearIssuesNow \ {x \in LinearIssues : x.id = "I2"} :
        LET message == SlackMessage("C2", Undefined, "see " \o issue.identifier,
                                    "W1", Undefined, Undefined)
        IN /\ Spawn(MessageEntry(message))
           /\ chat' = Append(chat,
                 [channel |-> message.channel, ts |-> SlackTs(Len(chat) + 1),
                  thread_ts |-> message.thread_ts, text |-> message.text,
                  bot_id |-> message.bot_id])
    /\ UNCHANGED <<threadMapFile, comments>>

NextCmd ==
    \/ CommandReceive
    \/ \E h \in Handlers : CommandAck(h)
    \/ \E h \in Handlers : CommandUserInfo(h)
    \/ \E h \in Handlers : CommandViewer(h)
    \/ \E h \in Handlers : CommandLinearUser(h)
    \/ \E h \in Handlers : CommandTeam(h)
    \/ \E h \in Handlers : CommandCycle(h)
    \/ \E h \in Handlers : CommandUpcomingCycle(h)
    \/ \E h \in Handlers : CommandCreateIssue(h)
    \/ \E h \in Handlers : CommandIssue(h)
    \/ \E h \in Handlers : CommandUsers(h)
    \/ \E h \in Handlers : CommandRootPost(h)
    \/ \E h \in Handlers : CommandThreadPost(h)
    \/ \E h \in Handlers : CommandRespond(h)
    \/ CmdWebhookReceive
    \/ \E h \in Handlers : WebhookLookup(h)
    \/ \E h \in Handlers : WebhookSearch(h)
    \/ \E h \in Handlers : WebhookPost(h)
    \/ CmdMessageReceive

\* Commands and deliveries only: nobody writes in the chat.
NextWriters ==
    \/ CommandReceive
    \/ \E h \in Handlers : CommandAck(h)
    \/ \E h \in Handlers : CommandUserInfo(h)
    \/ \E h \in Handlers : CommandViewer(h)
    \/ \E h \in Handlers : CommandLinearUser(h)
    \/ \E h \in Handlers : CommandTeam(h)
    \/ \E h \in Handlers : CommandCycle(h)
    \/ \E h \in Handlers : CommandUpcomingCycle(h)
    \/ \E h \in Handlers : CommandCreateIssue(h)
    \/ \E h \in Handlers : CommandIssue(h)
    \/ \E h \in Handlers : CommandUsers(h)
    \/ \E h \in Handlers : CommandRootPost(h)
    \/ \E h \in Handlers : CommandThreadPost(h)
    \/ \E h \in Handlers : CommandRespond(h)
    \/ CmdWebhookReceive
    \/ \E h \in Handlers : WebhookLookup(h)
    \/ \E h \in Handlers : WebhookSearch(h)
    \/ \E h \in Handlers : WebhookPost(h)

InitCmd ==
    /\ threadMapFile \in {FileOf("absent", EmptyMap)}
    /\ events = <<>>
    /\ comments = <<>>
    /\ chat = InitialChat

SpecCmd == InitCmd /\ [][NextCmd]_vars

\* The create command next to the webhook deliveries for its issue, without
\* mentions of the issue in the chat.
NextSummary ==
    \/ CommandReceive
    \/ \E h \in Handlers : CommandAck(h)
    \/ \E h \in Handlers : CommandUserInfo(h)
    \/ \E h \in Handlers : CommandViewer(h)
    \/ \E h \in Handlers : CommandLinearUser(h)
    \/ \E h \in Handlers : CommandTeam(h)
    \/ \E h \in Handlers : CommandCycle(h)
    \/ \E h \in Handlers : CommandUpcomingCycle(h)
    \/ \E h \in Handlers : CommandCreateIssue(h)
    \/ \E h \in Handlers : CommandIssue(h)
    \/ \E h \in Handlers : CommandUsers(h)
    \/ \E h \in Handlers : CommandRootPost(h)
    \/ \E h \in Handlers : CommandThreadPost(h)
    \/ \E h \in Handlers : CommandRespond(h)
    \/ CmdWebhookReceive
    \/ \E h \in Handlers : WebhookLookup(h)
    \/ \E h \in Handlers : WebhookSearch(h)
    \/ \E h \in Handlers : WebhookPost(h)

SpecSummary == InitCmd /\ [][NextSummary]_vars

SpecWriters == InitCmd /\ [][NextWriters]_vars

\* process.env.LINEAR_TEAM_ID of a process that was started without it, or
\* with the empty string.
MissingTeamIds == {Undefined, ""}

\* A command typed while the process runs without a team id.
CommandReceiveUnconfigured ==
    /\ CmdEventCount < MaxCmdEvents
    /\ \E command \in CommandDeliveries, teamId \in MissingTeamIds :
          Spawn([CommandEntry(command) EXCEPT !.teamId = teamId])
    /\ UNCHANGED <<threadMapFile, comments, chat>>

\* The process without a team id: the commands get as far as the look at
\* the team id.
NextUnconfigured ==
    \/ CommandReceiveUnconfigured
    \/ \E h \in Handlers : CommandAck(h)
    \/ \E h \in Handlers : CommandUserInfo(h)
    \/ \E h \in Handlers : CommandViewer(h)
    \/ \E h \in Handlers : CommandLinearUser(h)
    \/ \E h \in Handlers : CommandRespond(h)

SpecUnconfigured == InitCmd /\ [][NextUnconfigured]_vars

-----------------------------------------------------------------------------
(* Issue list helpers: the tags of a title *)

\* \s* of a regular expression from position i: the first position at or
\* after i that holds no white space.
RECURSIVE SkipSpace(_, _)
SkipSpace(text, i) ==
    IF i <= Len(text) /\ Char(text, i) \in WhiteSpace
    THEN SkipSpace(text, i + 1) ELSE i

\* [^\]]+ from position i: the position after the longest run of
\* characters other than "]".
RECURSIVE SkipNonBracket(_, _)
SkipNonBracket(text, i) ==
    IF i <= Len(text) /\ Char(text, i) # "]"
    THEN SkipNonBracket(text, i + 1) ELSE i

\* \[[^\]]+\] at position i: the position of its closing bracket, 0 when
\* there is no match at i.
GroupEnd(text, i) ==
    LET j == SkipNonBracket(text, i + 1)
    IN IF /\ i <= Len(text) /\ Char(text, i) = "["
          /\ j > i + 1
          /\ j <= Len(text)
       THEN j ELSE 0

\* The tags of the groups (\[[^\]]+\]\s*)+ from position i on: the trimmed
\* contents, without the empty ones.
RECURSIVE TagsFrom(_, _)
TagsFrom(text, i) ==
    LET e == GroupEnd(text, i)
        t == Trim(SubSeq(text, i + 1, e - 1))
    IN IF e = 0 THEN <<>>
       ELSE (IF t # "" THEN <<t>> ELSE <<>>) \o TagsFrom(text, SkipSpace(text, e + 1))

\* Mutant of extractTitleTags: the prefix is not anchored at the start of
\* the title, the groups of the first run anywhere in it are taken.
RECURSIVE extractTitleTags_unanchored(_)
extractTitleTags_unanchored(title) ==
    IF title = "" THEN <<>>
    ELSE IF GroupEnd(title, SkipSpace(title, 1)) # 0
    THEN TagsFrom(title, SkipSpace(title, 1))
    ELSE extractTitleTags_unanchored(SubSeq(title, 2, Len(title)))

\* extractTitleTags: the prefix /^\s*(\[[^\]]+\]\s*)+/ of the title, and of
\* it every /\[([^\]]+)\]/g capture, trimmed, unless empty.
extractTitleTags(title) == TagsFrom(title, SkipSpace(title, 1))

\* Length of the generated titles.
MaxTitleLen == 5

TitleAlphabet == {"[", "]", "A", "B", " "}

RECURSIVE TitlesOfLen(_)
TitlesOfLen(n) ==
    IF n = 0 THEN {""}
    ELSE {t \o c : t \in TitlesOfLen(n - 1), c \in TitleAlphabet}

\* The titles of the issues: every text over the alphabet up to the length,
\* and some longer ones.
IssueTitles ==
    UNION {TitlesOfLen(n) : n \in 0..MaxTitleLen}
    \cup { "[A] [B] rest", "no tags here", "mid [X] tag", " [A] [B] rest",
           "[API][UI] crash", "[A] x [B]", "[ API ] [ ] done", "x[A] [B]",
           "[A][][B] x", "[A] [ ] [B] x" }

\* buildIssueRows, for one issue: its row before and after the tags are
\* taken from its title.
IssueRow(title, tags, pc) == [kind |-> "row", pc |-> pc, title |-> title, tags |-> tags]

InitTags ==
    /\ threadMapFile = FileOf("absent", EmptyMap)
    /\ \E title \in IssueTitles : events = SetToBag({IssueRow(title, <<>>, "issue")})
    /\ comments = <<>>
    /\ chat = <<>>

\* tags: extractTitleTags(issue.title || '')
BuildIssueRow(h) ==
    /\ Running(h, "row", "issue")
    /\ SetEvent(h, IssueRow(h.title, extractTitleTags(h.title), "row"))
    /\ UNCHANGED <<threadMapFile, comments, chat>>

NextTags == \E h \in Handlers : BuildIssueRow(h)

SpecTags == InitTags /\ [][NextTags]_vars

-----------------------------------------------------------------------------
(* Issue list helpers: the groups of the rows *)

\* Property names that the object literal {} inherits from Object.prototype:
\* grouped[name] is a function or an object for them before any assignment.
ObjectPrototypeKeys == {"constructor", "toString", "__proto__"}

NoTagKey == "NoTag"

\* const grouped: Record<string, IssueRow[]> = {}: the own keys in the order
\* of their insertion and the rows of each; threw when a TypeError ended the
\* function.
EmptyGrouped == [threw |-> FALSE, keys |-> <<>>, rows |-> <<>>]

HasOwnKey(grouped, key) == \E n \in DOMAIN grouped.keys : grouped.keys[n] = key

\* !requestedTag
NoRequestedTag(requestedTag) == requestedTag \in {Undefined, ""}

\* Mutant of PushRow: a row is not added to a group that exists already.
PushRow_once(grouped, key, r) ==
    IF HasOwnKey(grouped, key) THEN grouped
    ELSE [grouped EXCEPT !.keys = Append(@, key), !.rows = (key :> <<r>>) @@ @]

\* if (!grouped[key]) grouped[key] = []; grouped[key].push(r)
\* An inherited property is truthy and has no push: the call throws.
PushRow(grouped, key, r) ==
    IF grouped.threw THEN grouped
    ELSE IF HasOwnKey(grouped, key)
    THEN [grouped EXCEPT !.rows[key] = Append(@, r)]
    ELSE IF key \in ObjectPrototypeKeys
    THEN [grouped EXCEPT !.threw = TRUE]
    ELSE [grouped EXCEPT !.keys = Append(@, key), !.rows = (key :> <<r>>) @@ @]

\* for (const t of tags)
RECURSIVE PushTags(_, _, _, _)
PushTags(grouped, r, tags, requestedTag) ==
    IF tags = <<>> THEN grouped
    ELSE PushTags(IF ~NoRequestedTag(requestedTag) /\ requestedTag # Head(tags)
                  THEN grouped
                  ELSE PushRow(grouped, Head(tags), r),
                  r, Tail(tags), requestedTag)

\* for (const r of rows)
RECURSIVE GroupRowsFrom(_, _, _)
GroupRowsFrom(grouped, rows, requestedTag) ==
    IF rows = <<>> THEN grouped
    ELSE LET r == Head(rows)
         IN GroupRowsFrom(IF Len(r.tags) = 0
                          THEN (IF NoRequestedTag(requestedTag) \/ requestedTag = NoTagKey
                                THEN PushRow(grouped, NoTagKey, r)
                                ELSE grouped)
                          ELSE PushTags(grouped, r, r.tags, requestedTag),
                          Tail(rows), requestedTag)

groupRowsByTags(rows, requestedTag) == GroupRowsFrom(EmptyGrouped, rows, requestedTag)

\* for (const r of rows) of groupRowsByState: the key of a row is the name
\* of its state.
RECURSIVE StateRowsFrom(_, _)
StateRowsFrom(grouped, rows) ==
    IF rows = <<>> THEN grouped
    ELSE StateRowsFrom(PushRow(grouped, Head(rows).stateName, Head(rows)), Tail(rows))

groupRowsByState(rows) == StateRowsFrom(EmptyGrouped, rows)

\* Stand-ins for a key that is written in two ways: the Hangul syllable
\* U+AC00 as one code point, and as the two conjoining jamo of its canonical
\* decomposition.
HangulPrecomposed == "U+AC00"

HangulDecomposed == "U+1100 U+1161"

\* The canonical decomposition of a key: localeCompare compares strings
\* that are canonically equivalent as equal.
CanonicalForm(key) == IF key = HangulPrecomposed THEN HangulDecomposed ELSE key

CollationLetters == "abcdefghijklmnopqrstuvwxyz"

AsciiLetters == "ABCDEFGHIJKLMNOPQRSTUVWXYZ"

PositionIn(text, c) == CHOOSE n \in 1..Len(text) : Char(text, n) = c

\* Primary weight of a character in the collation: white space and
\* punctuation, then digits, then the letters without regard to their case.
PrimaryWeight(c) ==
    IF c \in LowerChars THEN 30 + PositionIn(CollationLetters, c)
    ELSE IF c \in UpperChars THEN 30 + PositionIn(AsciiLetters, c)
    ELSE IF c \in DigitChars THEN 10 + DigitValue(c)
    ELSE IF c = " " THEN 1 ELSE 2

\* Tertiary weight: a lower case letter sorts before its upper case letter.
TertiaryWeight(c) == IF c \in UpperChars THEN 1 ELSE 0

\* Comparison of two texts by the weights of their characters from position
\* n on, the shorter text first: negative, zero or positive.
RECURSIVE CompareWeights(_, _, _, _)
CompareWeights(Weight(_), a, b, n) ==
    IF n > Len(a) /\ n > Len(b) THEN 0
    ELSE IF n > Len(a) THEN -1
    ELSE IF n > Len(b) THEN 1
    ELSE IF Weight(Char(a, n)) # Weight(Char(b, n))
    THEN Weight(Char(a, n)) - Weight(Char(b, n))
    ELSE CompareWeights(Weight, a, b, n + 1)

\* Mutant of localeCompare: every two keys compare as equal.
localeCompare_equal(a, b) == 0

\* a.localeCompare(b): zero for canonically equivalent keys, Hangul after
\* Latin, and Latin by the primary weights, then by the case.
localeCompare(a, b) ==
    LET x == CanonicalForm(a)
        y == CanonicalForm(b)
        primary == CompareWeights(PrimaryWeight, x, y, 1)
    IN IF x = y THEN 0
       ELSE IF x = HangulDecomposed THEN 1
       ELSE IF y = HangulDecomposed THEN -1
       ELSE IF primary # 0 THEN primary
       ELSE CompareWeights(TertiaryWeight, x, y, 1)

\* The comparison function of sortGroupKeys: the larger group first, then
\* localeCompare.
CompareKeys(grouped, a, b) ==
    LET diff == Len(grouped.rows[b]) - Len(grouped.rows[a])
    IN IF diff # 0 THEN diff ELSE localeCompare(a, b)

\* Array.prototype.sort is stable: a key goes in front of the first key
\* that compares greater, behind the keys that compare equal.
InsertKey(grouped, sorted, key) ==
    LET later == {n \in DOMAIN sorted : CompareKeys(grouped, sorted[n], key) > 0}
        p == IF later = {} THEN Len(sorted) + 1
             ELSE CHOOSE n \in later : \A m \in later : n <= m
    IN SubSeq(sorted, 1, p - 1) \o <<key>> \o SubSeq(sorted, p, Len(sorted))

RECURSIVE SortKeysFrom(_, _, _)
SortKeysFrom(grouped, sorted, keys) ==
    IF keys = <<>> THEN sorted
    ELSE SortKeysFrom(grouped, InsertKey(grouped, sorted, Head(keys)), Tail(keys))

\* Object.keys(grouped).sort(...)
sortGroupKeys(grouped) == SortKeysFrom(grouped, <<>>, grouped.keys)

\* Number of rows of a list.
MaxRows == 3

\* The tag lists of the rows, as extractTitleTags gives them.
RowTagLists ==
    { <<>>, <<"A">>, <<"B">>, <<"A", "B">>, <<"B", "A">>, <<"A", "A">>,
      <<"NoTag">>, <<"constructor">>, <<"a">>, <<HangulPrecomposed>>,
      <<HangulDecomposed>> }

\* The names of the states of the rows; Unknown is the name of a row
\* without a state.
RowStateNames == {"Todo", "In Progress", "Unknown", "constructor"}

\* The rows of buildIssueRows for issues 1..n with the tag lists given.
RowsOf(tagLists) == [n \in DOMAIN tagLists |-> [issue |-> n, tags |-> tagLists[n], stateName |-> "Todo"]]

\* The rows of buildIssueRows for issues 1..n with the state names given.
StateRowsOf(names) == [n \in DOMAIN names |-> [issue |-> n, tags |-> <<>>, stateName |-> names[n]]]

RowLists == UNION {{RowsOf(ts) : ts \in [1..n -> RowTagLists]} : n \in 1..MaxRows}

StateRowLists == UNION {{StateRowsOf(ns) : ns \in [1..n -> RowStateNames]} : n \in 1..MaxRows}

\* The tag of the command text, if any.
RequestedTags == {Undefined, "A", NoTagKey, "constructor"}

\* The texts of the two messages of a list.
ListRootText(mode) == IF mode = "tag" THEN "tag issue list" ELSE "state issue list"

ListThreadText(mode) == IF mode = "tag" THEN "tag issue rows" ELSE "state issue rows"

\* The list command after buildIssueRows and after the grouping.
TagList(rows, requestedTag, grouped, pc) == [kind |-> "list", pc |-> pc, mode |-> "tag", channel_id |-> "C1", rows |-> rows, requestedTag |-> requestedTag, grouped |-> grouped, groupKeys |-> <<>>, rootTs |-> Undefined, reply |-> "", named |-> <<>>, log |-> <<>>]

InitGroup ==
    /\ threadMapFile = FileOf("absent", EmptyMap)
    /\ \/ \E rows \in RowLists, requestedTag \in RequestedTags :
             events = SetToBag({TagList(rows, requestedTag, EmptyGrouped, "rows")})
       \/ \E rows \in StateRowLists :
             events = SetToBag({[TagList(rows, Undefined, EmptyGrouped, "rows")
                                   EXCEPT !.mode = "state"]})
    /\ comments = <<>>
    /\ chat = <<>>

\* The catch block: respond(...) with the message of the error.
ListResponds(h, log, reply) ==
    SetEvent(h, [h EXCEPT !.pc = "respond", !.log = log, !.reply = reply])

\* Mutant of ThreadBlocks: the sections are in the order of insertion of
\* the keys.
ThreadBlocks_unsorted(grouped, groupKeys) ==
    [n \in DOMAIN grouped.keys |-> [key |-> grouped.keys[n], rows |-> grouped.rows[grouped.keys[n]]]]

\* The blocks of the message in the thread: a section for each key of
\* groupKeys, in their order.
ThreadBlocks(grouped, groupKeys) ==
    [n \in DOMAIN groupKeys |-> [key |-> groupKeys[n], rows |-> grouped.rows[groupKeys[n]]]]

\* buildIssueRows has returned: the rows are grouped by the mode, a tag list
\* without groups is answered, else the keys are sorted and the root
\* message is sent.
GroupRows(h) ==
    /\ Running(h, "list", "rows")
    /\ LET grouped == IF h.mode = "tag" THEN groupRowsByTags(h.rows, h.requestedTag)
                      ELSE groupRowsByState(h.rows)
       IN IF grouped.threw
          THEN SetEvent(h, [h EXCEPT !.pc = "respond", !.grouped = grouped,
                                     !.reply = "error"])
          ELSE IF h.mode = "tag" /\ grouped.keys = <<>>
          THEN SetEvent(h, [h EXCEPT !.pc = "respond", !.grouped = grouped,
                                     !.reply = "no issues"])
          ELSE SetEvent(h, [h EXCEPT !.pc = "rootPost", !.grouped = grouped,
                                     !.groupKeys = sortGroupKeys(grouped)])
    /\ UNCHANGED <<threadMapFile, comments, chat>>

\* chat.postMessage of the root message throws, returns without a ts, or
\* returns: with a ts the blocks are built and the thread message is sent.
ListRootPost(h) ==
    /\ Running(h, "list", "rootPost")
    /\ LET summary == [total |-> Len(h.rows), groups |-> Len(h.groupKeys)]
           rootMessage == BotMessage(h.channel_id, Undefined, ListRootText(h.mode))
           log1(ok) == Append(h.log, Call("chat.postMessage", h.channel_id,
                                          Undefined, summary, ok))
       IN \/ /\ ListResponds(h, log1(FALSE), "error")
             /\ UNCHANGED chat
          \/ /\ ListResponds(h, log1(TRUE), "error")
             /\ UNCHANGED chat
          \/ /\ chat' = Append(chat, rootMessage)
             /\ SetEvent(h, [h EXCEPT !.pc = "threadPost", !.log = log1(TRUE),
                                      !.rootTs = rootMessage.ts])
    /\ UNCHANGED <<threadMapFile, comments>>

\* chat.postMessage of the thread message returns or throws.
ListThreadPost(h) ==
    /\ Running(h, "list", "threadPost")
    /\ LET log1(ok) == Append(h.log, Call("chat.postMessage", h.channel_id, h.rootTs,
                                          ThreadBlocks(h.grouped, h.groupKeys), ok))
       IN \/ /\ ListResponds(h, log1(FALSE), "error")
             /\ UNCHANGED chat
          \/ /\ SetEvent(h, [h EXCEPT !.pc = "done", !.log = log1(TRUE)])
             /\ chat' = Append(chat, BotMessage(h.channel_id, h.rootTs,
                                                ListThreadText(h.mode)))
    /\ UNCHANGED <<threadMapFile, comments>>

\* response_type of the replies of the list command.
ResponseType(reply) ==
    IF reply \in {"no active issues", "no issues"} THEN "in_channel" ELSE "ephemeral"

\* respond(...) returns or throws: the handler is over when it returns and
\* when it throws in the catch block; a throw in the try block is caught and
\* answered in the catch block.
ListRespond(h) ==
    /\ Running(h, "list", "respond")
    /\ \E ok \in BOOLEAN :
          SetEvent(h, [h EXCEPT !.pc = IF ok \/ h.reply = "error" THEN "done" ELSE "respond",
                         !.reply = IF ok THEN h.reply ELSE "error",
                         !.named = IF ok THEN h.named ELSE <<>>,
                         !.log = Append(h.log, Call("respond", h.reply, h.named,
                                                    ResponseType(h.reply), ok))])
    /\ UNCHANGED <<threadMapFile, comments, chat>>

NextGroup ==
    \E h \in Handlers :
        \/ GroupRows(h)
        \/ ListRootPost(h)
        \/ ListThreadPost(h)
        \/ ListRespond(h)

SpecGroup == InitGroup /\ [][NextGroup]_vars

-----------------------------------------------------------------------------
(* resolveSlackUserIdFromToken *)

\* toLowerCase
AlphabetUpper == "ABCDEFGHIJKLMNOPQRSTUVWXYZ"
AlphabetLower == "abcdefghijklmnopqrstuvwxyz"

LowerCaseChar(c) ==
    LET ix == {i \in 1..Len(AlphabetUpper) : Char(AlphabetUpper, i) = c}
    IN IF ix = {} THEN c ELSE Char(AlphabetLower, CHOOSE i \in ix : TRUE)

RECURSIVE ToLowerCase(_)
ToLowerCase(text) ==
    IF Len(text) = 0 THEN ""
    ELSE ToLowerCase(SubSeq(text, 1, Len(text) - 1)) \o LowerCaseChar(Char(text, Len(text)))

StartsWith(text, prefix) ==
    Len(text) >= Len(prefix) /\ SubSeq(text, 1, Len(prefix)) = prefix

\* replace(/[,:;]+$/g, '')
RECURSIVE StripTrailingPunctuation(_)
StripTrailingPunctuation(text) ==
    IF text # "" /\ Char(text, Len(text)) \in {",", ":", ";"}
    THEN StripTrailingPunctuation(SubSeq(text, 1, Len(text) - 1))
    ELSE text

\* const cleaned = raw.replace(...) of the trimmed token
CleanToken(token) == StripTrailingPunctuation(Trim(IF Truthy(token) THEN token ELSE ""))

AllIn(text, Ok(_)) == \A n \in 1..Len(text) : Ok(Char(text, n))

NotCloseAngle(c) == c # ">"

\* [\w.\-]
IsHandleChar(c) == IsWordChar(c) \/ c \in {".", "-"}

\* cleaned.match(/^<@([A-Z0-9]+)(?:\|[^>]+)?>$/): the user id of a mention,
\* Null when the token is none.
MentionId(cleaned) ==
    LET body == SubSeq(cleaned, 3, Len(cleaned) - 1)
        bars == {n \in 1..Len(body) : Char(body, n) = "|"}
        bar == IF bars = {} THEN Len(body) + 1 ELSE CHOOSE n \in bars : \A m \in bars : n <= m
        id == SubSeq(body, 1, bar - 1)
        name == SubSeq(body, bar + 1, Len(body))
    IN IF /\ Len(cleaned) >= 4
          /\ StartsWith(cleaned, "<@")
          /\ Char(cleaned, Len(cleaned)) = ">"
          /\ id # "" /\ AllIn(id, IsKeyChar)
          /\ bars # {} => (name # "" /\ AllIn(name, NotCloseAngle))
       THEN id ELSE Null

\* cleaned.match(/^@([\w.\-]+)$/): the handle, Null when the token is none.
HandleOf(cleaned) ==
    LET handle == SubSeq(cleaned, 2, Len(cleaned))
    IN IF Len(cleaned) >= 2 /\ Char(cleaned, 1) = "@" /\ AllIn(handle, IsHandleChar)
       THEN handle ELSE Null

\* const norm = (s?: string) => (s || '').trim().toLowerCase()
Norm(v) == ToLowerCase(Trim(IF Truthy(v) THEN v ELSE ""))

\* A member of the directory.
Member(id, name, displayName, realName, deleted, isBot) == [id |-> id, name |-> name, display_name |-> displayName, display_name_normalized |-> displayName, real_name |-> realName, real_name_normalized |-> realName, deleted |-> deleted, is_bot |-> isBot]

\* Mutant of MemberMatches: bots and deleted members are taken too.
MemberMatches_anyMember(m, h) ==
    h \in {Norm(m.name), Norm(m.display_name), Norm(m.display_name_normalized),
           Norm(m.real_name), Norm(m.real_name_normalized)}

\* The predicate of members.find(...)
MemberMatches(m, h) ==
    /\ ~(m.deleted \/ m.is_bot)
    /\ h \in {Norm(m.name), Norm(m.display_name), Norm(m.display_name_normalized),
              Norm(m.real_name), Norm(m.real_name_normalized)}

\* members.find(...)?.id: the id of the first member of the page that
\* matches, Undefined when none does.
PageMatch(members, h) ==
    LET ms == {n \in DOMAIN members : MemberMatches(members[n], h)}
    IN IF ms = {} THEN Undefined ELSE members[CHOOSE n \in ms : \A m \in ms : n <= m].id

\* for (let i = 0; i < 5; i++) // safety cap
PageCap == 5

\* The resolution has returned id, or waits for page i of users.list.
Returned(id) == [state |-> "returned", id |-> id, h |-> "", i |-> 0, cursor |-> Undefined]

Listing(h, i, cursor) == [state |-> "listing", id |-> Null, h |-> h, i |-> i, cursor |-> cursor]

\* resolveSlackUserIdFromToken up to its first await.
ResolveBegin(token) ==
    LET cleaned == CleanToken(token)
    IN IF MentionId(cleaned) # Null THEN Returned(MentionId(cleaned))
       ELSE IF HandleOf(cleaned) = Null THEN Returned(Null)
       ELSE Listing(ToLowerCase(Trim(HandleOf(cleaned))), 0, Undefined)

\* users.list has thrown (ok is FALSE) or returned the page.
ResolvePage(r, ok, page) ==
    IF ~ok THEN Returned(Null)
    ELSE IF Truthy(PageMatch(page.members, r.h)) THEN Returned(PageMatch(page.members, r.h))
    ELSE IF ~Truthy(page.next_cursor) THEN Returned(Null)
    ELSE IF r.i + 1 < PageCap THEN Listing(r.h, r.i + 1, page.next_cursor)
    ELSE Returned(Null)

\* The members of the directory.
Jun == Member("W2", "jun", "Jun K", "Jun Kim", FALSE, FALSE)

JunBot == Member("B7", "jun", "jun", "Jun Bot", FALSE, TRUE)

JunGone == Member("W8", "jun", "", "jun", TRUE, FALSE)

Junior == Member("W4", "junior", " JUN ", "Ju Nior", FALSE, FALSE)

Sean == Member("W3", "sean.k", "Sean", "Sean Kang", FALSE, FALSE)

\* The pages that users.list returns.
DirectoryMembers ==
    { <<>>, <<Sean>>, <<JunBot, JunGone>>, <<JunGone, Jun>>, <<Junior, Jun>>, <<Sean, Junior>> }

DirectoryPages == [members : DirectoryMembers, next_cursor : {"", "next"}]

\* The tokens given to resolveSlackUserIdFromToken.
ResolveTokens ==
    { "<@W2>", "<@W2|jun>,", "<@w2>", "<@W2|>", "@jun", "@JUN;", " @sean.k ", "@ghost",
      "@", "jun", "@j un", "" }

ResolveEntry(token) == [kind |-> "resolve", pc |-> "token", token |-> token, r |-> Returned(Null), log |-> <<>>]

InitResolve ==
    /\ threadMapFile = FileOf("absent", EmptyMap)
    /\ \E token \in ResolveTokens : events = SetToBag({ResolveEntry(token)})
    /\ comments = <<>>
    /\ chat = <<>>

\* The token is looked at: a mention and a token that is no handle return,
\* a handle asks for the first page.
ResolveToken(h) ==
    /\ Running(h, "resolve", "token")
    /\ LET r == ResolveBegin(h.token)
       IN SetEvent(h, [h EXCEPT !.r = r,
                         !.pc = IF r.state = "returned" THEN "returned" ELSE "usersList"])
    /\ UNCHANGED <<threadMapFile, comments, chat>>

\* client.users.list({limit: 200, cursor}) returns a page or throws.
ResolveUsersList(h) ==
    /\ Running(h, "resolve", "usersList")
    /\ \E ok \in BOOLEAN, page \in DirectoryPages :
          LET r == ResolvePage(h.r, ok, page)
              call == IF ok THEN Call("users.list", h.r.cursor, page.members, page.next_cursor, TRUE)
                      ELSE Call("users.list", h.r.cursor, <<>>, "", FALSE)
          IN SetEvent(h, [h EXCEPT !.r = r, !.log = Append(h.log, call),
                            !.pc = IF r.state = "returned" THEN "returned" ELSE "usersList"])
    /\ UNCHANGED <<threadMapFile, comments, chat>>

NextResolve == \E h \in Handlers : ResolveToken(h) \/ ResolveUsersList(h)

SpecResolve == InitResolve /\ [][NextResolve]_vars

\* A step is possible as long as the resolution has not returned.
ResolveEnabled == \E h \in Handlers : h.kind = "resolve" /\ h.pc # "returned"

\* A call that is awaited returns or throws: weak fairness of NextResolve,
\* WF_vars(NextResolve), with its enabling condition written out.
ResolveFairness == []<>(~ResolveEnabled) \/ []<><<NextResolve>>_vars

SpecResolveFair == SpecResolve /\ ResolveFairness

-----------------------------------------------------------------------------
(* handleIssueListCommand: /issue-list and /tag-list *)

\* The pieces of the text between separators, without the empty ones.
RECURSIVE SplitFrom(_, _, _, _)
SplitFrom(text, seps, n, piece) ==
    IF n > Len(text) THEN (IF piece = "" THEN <<>> ELSE <<piece>>)
    ELSE IF Char(text, n) \in seps
    THEN (IF piece = "" THEN <<>> ELSE <<piece>>) \o SplitFrom(text, seps, n + 1, "")
    ELSE SplitFrom(text, seps, n + 1, piece \o Char(text, n))

\* raw ? raw.split(/\s+/) : [] of the trimmed text
TokensOfText(text) == SplitFrom(Trim(text), WhiteSpace, 1, "")

IsAssigneeToken(t) == StartsWith(t, "@") \/ StartsWith(t, "<@")

\* t.split(',').map(s => s.trim()).filter(Boolean), and of these the
\* parts that start with @ or <@.
AssigneeParts(t) ==
    LET parts == SplitFrom(t, {","}, 1, "")
        trimmed == [n \in DOMAIN parts |-> Trim(parts[n])]
    IN SelectSeq(trimmed, IsAssigneeToken)

\* Stand-in for the Korean word for tag.
TagWord == "taegeu"

\* The token parse: for (let i = 0; i < tokens.length; i++)
RECURSIVE ParseTokens(_, _, _)
ParseTokens(tokens, i, st) ==
    IF i > Len(tokens) THEN st
    ELSE LET t == tokens[i]
             next == IF i + 1 <= Len(tokens) THEN tokens[i + 1] ELSE Undefined
         IN IF t = TagWord \/ ToLowerCase(t) = "tag"
            THEN ParseTokens(tokens, i + 1,
                    [st EXCEPT !.mode = "tag",
                               !.requestedTag = IF Truthy(next) /\ ~IsAssigneeToken(next)
                                                THEN next ELSE @])
            ELSE IF IsAssigneeToken(t)
            THEN ParseTokens(tokens, i + 1,
                    [st EXCEPT !.assigneeTokens = @ \o AssigneeParts(t)])
            ELSE ParseTokens(tokens, i + 1, st)

\* let mode = modeOverride || 'state'; let requestedTag; assigneeTokens = []
ParseCommandText(text, modeOverride) ==
    ParseTokens(TokensOfText(IF Truthy(text) THEN text ELSE ""), 1,
                [mode |-> IF Truthy(modeOverride) THEN modeOverride ELSE "state",
                 requestedTag |-> Undefined, assigneeTokens |-> <<>>])

\* users.info(...).user?.profile?.email of the users of the workspace.
ListEmailOf(userId) ==
    CASE userId = "W1" -> "ann@x.io"
      [] userId = "W2" -> "jun@x.io"
      [] userId = "W4" -> "junior@x.io"
      [] OTHER -> Undefined

\* users({filter: {email: {eq}}}).nodes[0], Null when there is none.
ListLinearUserOf(email) ==
    CASE email = "ann@x.io" -> "U1"
      [] email = "jun@x.io" -> "U2"
      [] OTHER -> Null

ActiveIssue(id, title, stateName, assigneeName) == [id |-> id, title |-> title, stateName |-> stateName, assigneeName |-> assigneeName]

\* issues({filter: {assignee, state not completed or canceled}}).nodes
ActiveIssuesOf(linearUserId) ==
    CASE linearUserId = "U1" -> << ActiveIssue("I1", "[QA] login", "Todo", "Ann Lee"),
                                   ActiveIssue("I2", "cleanup", "Todo", "Ann Lee") >>
      [] linearUserId = "U2" -> << ActiveIssue("I6", "[API][QA] crash", "In Progress", "Jun Kim") >>
      [] OTHER -> <<>>

\* The texts of the list commands.
ListTexts ==
    { "", "@jun", "<@W1>", "@ghost", "@jun,@ghost", "<@W2>, <@W9>", "QA", "tag QA",
      "<@W2> taegeu API", "@sean.k TAG" }

\* /issue-list has no modeOverride, /tag-list has modeOverride 'tag'.
ListDeliveries ==
    {[text |-> text, user_id |-> "W1", channel_id |-> "C1", modeOverride |-> m] :
        text \in ListTexts, m \in {Undefined, "tag"}}

ListEntry(command) == [kind |-> "list", pc |-> "ack", command |-> command, channel_id |-> command.channel_id, mode |-> "state", requestedTag |-> Undefined, assigneeTokens |-> <<>>, tokensLeft |-> <<>>, r |-> Returned(Null), resolved |-> <<>>, assigneeSlackIds |-> <<>>, idsLeft |-> <<>>, email |-> Undefined, linearUser |-> Null, allIssues |-> <<>>, failedAssignees |-> <<>>, issuesLeft |-> <<>>, rows |-> <<>>, grouped |-> EmptyGrouped, groupKeys |-> <<>>, rootTs |-> Undefined, reply |-> "", named |-> <<>>, log |-> <<>>]

InitList ==
    /\ threadMapFile = FileOf("absent", EmptyMap)
    /\ \E command \in ListDeliveries : events = SetToBag({ListEntry(command)})
    /\ comments = <<>>
    /\ chat = <<>>

\* if (id && !assigneeSlackIds.includes(id)) assigneeSlackIds.push(id)
PushId(ids, id) == IF Truthy(id) /\ id \notin Range(ids) THEN Append(ids, id) ELSE ids

\* `<@${slackId}>`
MentionOf(slackId) == "<@" \o slackId \o ">"

\* The loop over the slack ids goes on with the next id, and after the
\* last: no issue at all is answered, failed assignees are warned of, and
\* the rows are built.
NextAssignee(h) ==
    IF h.idsLeft # <<>> THEN [h EXCEPT !.pc = "userInfo"]
    ELSE IF h.allIssues = <<>>
    THEN [h EXCEPT !.pc = "respond", !.reply = "no active issues",
                   !.named = [n \in DOMAIN h.assigneeSlackIds |-> MentionOf(h.assigneeSlackIds[n])]]
    ELSE IF h.failedAssignees # <<>>
    THEN [h EXCEPT !.pc = "warn", !.reply = "warning", !.named = h.failedAssignees]
    ELSE [h EXCEPT !.pc = "rowAssignee", !.issuesLeft = h.allIssues]

\* Mutant of ResolveAssignees: when no token resolved, the requester is the
\* assignee.
RECURSIVE ResolveAssignees_fallback(_)
ResolveAssignees_fallback(h) ==
    IF h.tokensLeft = <<>>
    THEN LET ids == IF h.assigneeSlackIds = <<>> THEN <<h.command.user_id>>
                    ELSE h.assigneeSlackIds
         IN NextAssignee([h EXCEPT !.assigneeSlackIds = ids, !.idsLeft = ids])
    ELSE LET r == ResolveBegin(Head(h.tokensLeft))
         IN IF r.state = "listing"
            THEN [h EXCEPT !.pc = "usersList", !.r = r]
            ELSE ResolveAssignees_fallback([h EXCEPT !.tokensLeft = Tail(@),
                                          !.resolved = Append(@, r.id),
                                          !.assigneeSlackIds = PushId(@, r.id)])

\* The loop over the assignee tokens: the tokens that need no directory call
\* are resolved at once; a handle asks for its first page.  After the last
\* token: none resolved is answered, else the issues are fetched; without
\* tokens the requester is the assignee.
RECURSIVE ResolveAssignees(_)
ResolveAssignees(h) ==
    IF h.tokensLeft = <<>>
    THEN IF h.assigneeTokens # <<>> /\ h.assigneeSlackIds = <<>>
         THEN [h EXCEPT !.pc = "respond", !.reply = "not found", !.named = h.assigneeTokens]
         ELSE LET ids == IF h.assigneeSlackIds = <<>> THEN <<h.command.user_id>>
                         ELSE h.assigneeSlackIds
              IN NextAssignee([h EXCEPT !.assigneeSlackIds = ids, !.idsLeft = ids])
    ELSE LET r == ResolveBegin(Head(h.tokensLeft))
         IN IF r.state = "listing"
            THEN [h EXCEPT !.pc = "usersList", !.r = r]
            ELSE ResolveAssignees([h EXCEPT !.tokensLeft = Tail(@),
                                          !.resolved = Append(@, r.id),
                                          !.assigneeSlackIds = PushId(@, r.id)])

\* ack() returns or throws; then the text is parsed and the tokens are
\* resolved.
ListAck(h) ==
    /\ Running(h, "list", "ack")
    /\ LET log1(ok) == Append(h.log, Call("ack", "", "", "", ok))
           st == ParseCommandText(h.command.text, h.command.modeOverride)
       IN \/ SetEvent(h, [h EXCEPT !.pc = "done", !.log = log1(FALSE)])
          \/ SetEvent(h, ResolveAssignees([h EXCEPT !.log = log1(TRUE), !.mode = st.mode,
                                            !.requestedTag = st.requestedTag,
                                            !.assigneeTokens = st.assigneeTokens,
                                            !.tokensLeft = st.assigneeTokens]))
    /\ UNCHANGED <<threadMapFile, comments, chat>>

\* client.users.list of resolveSlackUserIdFromToken returns a page or
\* throws.
ListUsersList(h) ==
    /\ Running(h, "list", "usersList")
    /\ \E ok \in BOOLEAN, page \in DirectoryPages :
          LET r == ResolvePage(h.r, ok, page)
              log1 == Append(h.log, Call("users.list", h.r.cursor, "", "", ok))
          IN IF r.state = "listing"
             THEN SetEvent(h, [h EXCEPT !.r = r, !.log = log1])
             ELSE SetEvent(h, ResolveAssignees([h EXCEPT !.r = r, !.log = log1,
                                                !.tokensLeft = Tail(@),
                                                !.resolved = Append(@, r.id),
                                                !.assigneeSlackIds = PushId(@, r.id)]))
    /\ UNCHANGED <<threadMapFile, comments, chat>>

\* A call of the try block has thrown: the catch block answers.
ListCatch(h, log) == [h EXCEPT !.pc = "respond", !.reply = "error", !.named = <<>>, !.log = log]

\* getSlackEmailByUserId: users.info returns or throws.
ListUserInfo(h) ==
    /\ Running(h, "list", "userInfo")
    /\ LET slackId == Head(h.idsLeft)
           email == ListEmailOf(slackId)
           log1(ok) == Append(h.log, Call("users.info", slackId, "", "", ok))
       IN \/ SetEvent(h, ListCatch(h, log1(FALSE)))
          \/ IF ~Truthy(email)
             THEN SetEvent(h, NextAssignee([h EXCEPT !.log = log1(TRUE), !.idsLeft = Tail(@),
                                !.failedAssignees = Append(@, MentionOf(slackId))]))
             ELSE SetEvent(h, [h EXCEPT !.pc = "viewer", !.log = log1(TRUE),
                                        !.email = email])
    /\ UNCHANGED <<threadMapFile, comments, chat>>

\* getLinearUserByEmail, first await: linearClient.viewer
ListViewer(h) ==
    /\ Running(h, "list", "viewer")
    /\ LET log1(ok) == Append(h.log, Call("linear.viewer", "", "", "", ok))
       IN \/ SetEvent(h, ListCatch(h, log1(FALSE)))
          \/ SetEvent(h, [h EXCEPT !.pc = "linearUsers", !.log = log1(TRUE)])
    /\ UNCHANGED <<threadMapFile, comments, chat>>

\* getLinearUserByEmail, second await: users(...) returns or throws; with a
\* user the issues are asked for.
ListLinearUsers(h) ==
    /\ Running(h, "list", "linearUsers")
    /\ LET slackId == Head(h.idsLeft)
           linearUser == ListLinearUserOf(h.email)
           log1(ok) == Append(h.log, Call("linear.users", h.email, "", "", ok))
       IN \/ SetEvent(h, ListCatch(h, log1(FALSE)))
          \/ IF linearUser = Null
             THEN SetEvent(h, NextAssignee([h EXCEPT !.log = log1(TRUE), !.idsLeft = Tail(@),
                                !.failedAssignees = Append(@, MentionOf(slackId))]))
             ELSE SetEvent(h, [h EXCEPT !.pc = "issues", !.log = log1(TRUE),
                                        !.linearUser = linearUser])
    /\ UNCHANGED <<threadMapFile, comments, chat>>

\* fetchActiveIssuesByAssigneeId returns or throws.
ListIssues(h) ==
    /\ Running(h, "list", "issues")
    /\ LET log1(ok) == Append(h.log, Call("linear.issues", h.linearUser, "", "", ok))
       IN \/ SetEvent(h, ListCatch(h, log1(FALSE)))
          \/ SetEvent(h, NextAssignee([h EXCEPT !.log = log1(TRUE), !.idsLeft = Tail(@),
                                !.allIssues = @ \o ActiveIssuesOf(h.linearUser)]))
    /\ UNCHANGED <<threadMapFile, comments, chat>>

\* The warning of the failed assignees has been sent, or respond has thrown.
ListWarn(h) ==
    /\ Running(h, "list", "warn")
    /\ LET log1(ok) == Append(h.log, Call("respond", h.reply, h.named,
                                          ResponseType(h.reply), ok))
       IN \/ SetEvent(h, ListCatch(h, log1(FALSE)))
          \/ SetEvent(h, [h EXCEPT !.pc = "rowAssignee", !.log = log1(TRUE),
                                   !.issuesLeft = h.allIssues])
    /\ UNCHANGED <<threadMapFile, comments, chat>>

\* buildIssueRows: await issue.assignee
ListRowAssignee(h) ==
    /\ Running(h, "list", "rowAssignee")
    /\ LET log1(ok) == Append(h.log, Call("issue.assignee", Head(h.issuesLeft).id, "", "", ok))
       IN \/ SetEvent(h, ListCatch(h, log1(FALSE)))
          \/ SetEvent(h, [h EXCEPT !.pc = "rowState", !.log = log1(TRUE)])
    /\ UNCHANGED <<threadMapFile, comments, chat>>

\* buildIssueRows: await issue.state, then the row of the issue; after the
\* last issue the rows are returned.
ListRowState(h) ==
    /\ Running(h, "list", "rowState")
    /\ LET issue == Head(h.issuesLeft)
           row == [issue |-> issue.id, assigneeName |-> issue.assigneeName,
                   tags |-> extractTitleTags(issue.title), stateName |-> issue.stateName]
           log1(ok) == Append(h.log, Call("issue.state", issue.id, "", "", ok))
       IN \/ SetEvent(h, ListCatch(h, log1(FALSE)))
          \/ SetEvent(h, [h EXCEPT !.log = log1(TRUE), !.issuesLeft = Tail(@),
                             !.rows = Append(@, row),
                             !.pc = IF Len(h.issuesLeft) = 1 THEN "rows" ELSE "rowAssignee"])
    /\ UNCHANGED <<threadMapFile, comments, chat>>

NextList ==
    \E h \in Handlers :
        \/ ListAck(h)
        \/ ListUsersList(h)
        \/ ListUserInfo(h)
        \/ ListViewer(h)
        \/ ListLinearUsers(h)
        \/ ListIssues(h)
        \/ ListWarn(h)
        \/ ListRowAssignee(h)
        \/ ListRowState(h)
        \/ GroupRows(h)
        \/ ListRootPost(h)
        \/ ListThreadPost(h)
        \/ ListRespond(h)

SpecList == InitList /\ [][NextList]_vars

-----------------------------------------------------------------------------
(* A caller of ThreadMappingStore *)

\* Number of get and set calls of the caller.
MaxStoreOps == 4

StoreIdentifiers == {"1SW-42", "QA-7"}
StoreChannels == {"C1", "C2"}
StoreTimestamps == {"100.1", "100.4"}

StoreCaller(log) == [kind |-> "store", pc |-> "calls", log |-> log]

\* ThreadMappingStore.get(issueIdentifier); the call and what it returned.
StoreCallerGet(h, issueIdentifier) ==
    /\ Running(h, "store", "calls")
    /\ Len(h.log) < MaxStoreOps
    /\ LET mapped == StoreGet(threadMapFile, issueIdentifier)
       IN SetEvent(h, StoreCaller(Append(h.log,
              Call("store.get", issueIdentifier, mapped.channelId, mapped.threadTs, TRUE))))
    /\ UNCHANGED <<threadMapFile, comments, chat>>

\* ThreadMappingStore.set(issueIdentifier, channelId, threadTs)
StoreCallerSet(h, issueIdentifier, channelId, threadTs) ==
    /\ Running(h, "store", "calls")
    /\ Len(h.log) < MaxStoreOps
    /\ threadMapFile' = StoreSet(threadMapFile, issueIdentifier, channelId, threadTs)
    /\ SetEvent(h, StoreCaller(Append(h.log,
              Call("store.set", issueIdentifier, channelId, threadTs, TRUE))))
    /\ UNCHANGED <<comments, chat>>

InitStore ==
    /\ threadMapFile = FileOf("absent", EmptyMap)
    /\ events = SetToBag({StoreCaller(<<>>)})
    /\ comments = <<>>
    /\ chat = InitialChat

NextStore ==
    \/ \E h \in Handlers, id \in StoreIdentifiers : StoreCallerGet(h, id)
    \/ \E h \in Handlers, id \in StoreIdentifiers, c \in StoreChannels,
          t \in StoreTimestamps : StoreCallerSet(h, id, c, t)

SpecStore == InitStore /\ [][NextStore]_vars

\* Reading thread_map.json starts to throw (its permissions change, the
\* process runs out of file descriptors); the file keeps its contents and
\* can still be written.
StorageFails ==
    /\ threadMapFile.state = "json"
    /\ threadMapFile' = [threadMapFile EXCEPT !.state = "unreadable"]
    /\ UNCHANGED <<events, comments, chat>>

\* Reading thread_map.json works again.
StorageRecovers ==
    /\ threadMapFile.state = "unreadable"
    /\ threadMapFile' = [threadMapFile EXCEPT !.state = "json"]
    /\ UNCHANGED <<events, comments, chat>>

\* The caller starts with no file or with a file whose text is no JSON.
InitStoreFaulty ==
    /\ threadMapFile \in {FileOf("absent", EmptyMap), FileOf("corrupt", EmptyMap)}
    /\ events = SetToBag({StoreCaller(<<>>)})
    /\ comments = <<>>
    /\ chat = InitialChat

NextStoreFaulty ==
    \/ \E h \in Handlers, id \in StoreIdentifiers : StoreCallerGet(h, id)
    \/ \E h \in Handlers, id \in StoreIdentifiers, c \in StoreChannels,
          t \in StoreTimestamps : StoreCallerSet(h, id, c, t)
    \/ StorageFails
    \/ StorageRecovers

SpecStoreFaulty == InitStoreFaulty /\ [][NextStoreFaulty]_vars

-----------------------------------------------------------------------------
(* The system *)

\* thread_map.json as an earlier run of the process may have left it.
InitialFiles ==
    { FileOf("absent", EmptyMap),
      FileOf("json", [k \in {"1SW-42"} |-> [channelId |-> "C1", threadTs |-> "100.1"]]) }

Init ==
    /\ threadMapFile \in InitialFiles
    /\ events = <<>>
    /\ comments = <<>>
    /\ chat = InitialChat

Next ==
    \/ WebhookReceive
    \/ \E h \in Handlers : WebhookLookup(h)
    \/ \E h \in Handlers : WebhookSearch(h)
    \/ \E h \in Handlers : WebhookPost(h)
    \/ MessageReceive
    \/ \E h \in Handlers : MessageReplies(h)
    \/ \E h \in Handlers : MessageIssues(h)
    \/ \E h \in Handlers : MessageUserInfo(h)
    \/ \E h \in Handlers : MessageComment(h)

Spec == Init /\ [][Next]_vars

\* The deliveries Linear makes when the assignee of an issue is changed: to
\* a user from nobody or from another user, and to nobody (assigneeId null,
\* or left out of data), alone or together with the state.
AssigneeDeliveries ==
    { IssueUpdate("I1", "S2", Undefined, "U1", Null),
      IssueUpdate("I1", "S2", Undefined, "U1", "U2"),
      IssueUpdate("I1", "S2", Undefined, Null, "U1"),
      IssueUpdate("I1", "S2", Undefined, Undefined, "U1"),
      IssueUpdate("I2", "S1", Undefined, "U1", Null),
      IssueUpdate("I1", "S2", "S1", "U1", Null),
      IssueUpdate("I1", "S2", "S1", Null, "U1") }

AssigneeReceive ==
    /\ BagCardinality(events) < MaxEvents
    /\ \E body \in AssigneeDeliveries : Spawn(WebhookEntry(body, FALSE))
    /\ UNCHANGED <<threadMapFile, comments, chat>>

NextAssigneeChange ==
    \/ AssigneeReceive
    \/ \E h \in Handlers : WebhookLookup(h)
    \/ \E h \in Handlers : WebhookSearch(h)
    \/ \E h \in Handlers : WebhookPost(h)

SpecAssignee == Init /\ [][NextAssigneeChange]_vars

\* What people do in Linear to the issue with a thread: a state change, an
\* assignee change, a comment.
HumanDeliveries ==
    { IssueUpdate("I1", "S2", "S1", Undefined, Undefined),
      IssueUpdate("I1", "S2", Undefined, "U1", Null),
      CommentEvent("create", "I1", "U1", "looks good") }

HumanDeliveryReceive ==
    /\ BagCardinality(events) < MaxEvents
    /\ \E body \in HumanDeliveries : Spawn(WebhookEntry(body, FALSE))
    /\ UNCHANGED <<threadMapFile, comments, chat>>

\* The message event Slack sends for a message the bot posted: it carries
\* the bot_id of the post and its ts.
EchoOf(m) ==
    SlackMessage(m.channel, m.thread_ts, m.text, "W0", Undefined, m.bot_id)
        @@ [ts |-> m.ts]

IsEcho(h) == h.kind = "message" /\ "ts" \in DOMAIN h.message

\* Slack delivers a post of the webhook handler to app.message, once.
EchoReceive ==
    /\ BagCardinality(events) < MaxEvents
    /\ \E k \in DOMAIN chat :
          /\ chat[k].bot_id = "B0"
          /\ \A h \in Handlers : IsEcho(h) => h.message.ts # chat[k].ts
          /\ Spawn(MessageEntry(EchoOf(chat[k])))
    /\ UNCHANGED <<threadMapFile, comments, chat>>

\* The webhook handler, the message handler, and Slack delivering the posts
\* of the one to the other.
NextEcho ==
    \/ HumanDeliveryReceive
    \/ \E h \in Handlers : WebhookLookup(h)
    \/ \E h \in Handlers : WebhookSearch(h)
    \/ \E h \in Handlers : WebhookPost(h)
    \/ EchoReceive
    \/ MessageReceive
    \/ \E h \in Handlers : MessageReplies(h)
    \/ \E h \in Handlers : MessageIssues(h)
    \/ \E h \in Handlers : MessageUserInfo(h)
    \/ \E h \in Handlers : MessageComment(h)

SpecEcho == Init /\ [][NextEcho]_vars

-----------------------------------------------------------------------------
(* The interactive actions: assign_to_me_btn, assign_to_user, mark_done *)

\* The blocks of a message: a block has a type, some have fields, some
\* have elements.
PlainBlock(type) == [type |-> type]
FieldsBlock(type, fields) == [type |-> type, fields |-> fields]
ElementsBlock(type, elements) == [type |-> type, elements |-> elements]

AssigneeField(name) == "*assignee:*\n" \o name
BuildField(buildVersion) == "*build:*\n" \o buildVersion
StateField(name) == "*state:*\n" \o name

\* The blocks of the root message of the create-issue command.
RootBlocks(issueIdentifier, assigneeName, buildVersion) ==
    << PlainBlock("section"),
       ElementsBlock("context", <<"Issue: " \o issueIdentifier>>),
       FieldsBlock("section", <<AssigneeField(assigneeName), BuildField(buildVersion),
                                StateField("Todo")>>),
       PlainBlock("section"),
       PlainBlock("divider"),
       PlainBlock("header"),
       ElementsBlock("actions", <<"assign_to_me_btn", "assign_to_user">>),
       PlainBlock("header"),
       ElementsBlock("actions", <<"mark_done">>) >>

\* The blocks of the message the command posts in the thread.
ThreadBlocksOfCommand == << PlainBlock("section") >>

\* blocks[i] && blocks[i].fields, and the same for elements; i counts from
\* 0 as in JavaScript.
HasFields(blocks, i) == i + 1 \in DOMAIN blocks /\ "fields" \in DOMAIN blocks[i + 1]
HasElements(blocks, i) == i + 1 \in DOMAIN blocks /\ "elements" \in DOMAIN blocks[i + 1]

\* if (updatedBlocks[1] && updatedBlocks[1].fields)
\*     updatedBlocks[1].fields[n].text = text
SetFieldOfBlock1(blocks, n, text) ==
    IF HasFields(blocks, 1)
    THEN [blocks EXCEPT ![2].fields[n + 1] = text]
    ELSE blocks

\* if (threadBlocks[5] && threadBlocks[5].elements) threadBlocks[5].elements
\*     = threadBlocks[5].elements.filter(el => el.action_id !== 'mark_done')
RemoveMarkDone(blocks) ==
    IF HasElements(blocks, 5)
    THEN LET keep(el) == el # "mark_done"
         IN [blocks EXCEPT ![6].elements = SelectSeq(@, keep)]
    ELSE blocks

AssigneeChangedText(name) == "assignee changed: " \o name
IssueDoneText == "issue marked done"
IssueDoneStateText(name) == "issue done: " \o name
FeedbackText(userId) == "<@" \o userId \o "> marked this issue done"

\* The issue the command made, its root message and the message in its
\* thread.
ActionIssueId == "I3"
ActionIssueIdentifier == "1SW-43"

RenderedRoot ==
    [channel |-> "C1", ts |-> "100.1", thread_ts |-> Undefined,
     text |-> RootMessageText("Fix [API] crash", ActionIssueIdentifier),
     bot_id |-> "B0", blocks |-> RootBlocks(ActionIssueIdentifier, "Ann Lee", "None")]

RenderedThreadMessage ==
    [channel |-> "C1", ts |-> "100.2", thread_ts |-> "100.1",
     text |-> ThreadMessageText, bot_id |-> "B0", blocks |-> ThreadBlocksOfCommand]

\* profile.email of the users who click.
ActionEmailOf(userId) ==
    CASE userId = "W1" -> "ann@x.io"
      [] userId = "W2" -> "bob@x.io"
      [] userId = "W4" -> "eve@x.io"
      [] OTHER -> Undefined

\* getLinearUserByEmail: the id of the user, null without one.
ActionLinearUserOf(email) ==
    CASE email = "ann@x.io" -> "U1"
      [] email = "bob@x.io" -> "U2"
      [] OTHER -> Null

\* linearUser.name
ActionLinearUserName(id) == IF id = "U1" THEN "Ann Lee" ELSE "Bob Ray"

\* The options of the assignee selector: JSON of issueId and userId, and
\* the name as text.
NoOption == [issueId |-> "", userId |-> "", text |-> ""]

SelectOptions ==
    { [issueId |-> ActionIssueId, userId |-> "U1", text |-> "Ann Lee"],
      [issueId |-> ActionIssueId, userId |-> "U2", text |-> "Bob Ray"] }

\* The workflow states of the team of the issue, as the tracker may be set
\* up: a state named Done, a completed state of another name, none.
TeamStateSets ==
    { << [id |-> "S1", name |-> "Todo", type |-> "unstarted"],
         [id |-> "S2", name |-> "Done", type |-> "completed"] >>,
      << [id |-> "S1", name |-> "Todo", type |-> "unstarted"],
         [id |-> "S9", name |-> "Shipped", type |-> "completed"] >>,
      << [id |-> "S1", name |-> "Todo", type |-> "unstarted"] >> }

DoneNames == {"Done", "Completed", "wanryo"}

StatesByName(states) ==
    LET test(st) == st.name \in DoneNames IN SelectSeq(states, test)

StatesByType(states) ==
    LET test(st) == st.type = "completed" IN SelectSeq(states, test)

\* Number of clicks handled in a run.
MaxActions == 2

\* body.message of a click on a message of the chat: a root message has a
\* thread_ts, its own ts, once it has replies.
ClickedMessage(m) ==
    [channel |-> m.channel, ts |-> m.ts,
     thread_ts |-> IF m.thread_ts # Undefined THEN m.thread_ts
                   ELSE IF \E k \in DOMAIN chat : chat[k].thread_ts = m.ts THEN m.ts
                   ELSE Undefined,
     blocks |-> m.blocks]

\* The handler from its entry to its first await, ack().
ActionEntry(name, type, value, option, userId, message, teamStates) ==
    [kind |-> "action", name |-> name, pc |-> "ack",
     type |-> type, value |-> value, option |-> option,
     user |-> userId, message |-> message, teamStates |-> teamStates,
     userName |-> "", assigneeId |-> "", doneState |-> [id |-> "", name |-> "", type |-> ""],
     blocks |-> <<>>, log |-> <<>>]

IsAction(h) == h.kind = "action"

\* Somebody clicks a control of the root message.
ActionReceive ==
    /\ Cardinality({h \in Handlers : IsAction(h)}) < MaxActions
    /\ BagCardinality(events) < MaxActions
    /\ LET message == ClickedMessage(chat[1])
       IN \/ \E userId \in {"W1", "W2", "W3", "W4"} :
                Spawn(ActionEntry("assign_to_me_btn", "button", ActionIssueId, NoOption,
                                  userId, message, <<>>))
          \/ \E option \in SelectOptions :
                Spawn(ActionEntry("assign_to_user", "static_select", Undefined, option,
                                  "W1", message, <<>>))
          \/ \E teamStates \in TeamStateSets, userId \in {"W1", "W2"} :
                /\ \E n \in DOMAIN message.blocks :
                      /\ "elements" \in DOMAIN message.blocks[n]
                      /\ "mark_done" \in Range(message.blocks[n].elements)
                /\ Spawn(ActionEntry("mark_done", "button", ActionIssueId, NoOption,
                                     userId, message, teamStates))
    /\ UNCHANGED <<threadMapFile, comments, chat>>

\* The handler is over: it returned, or it threw into its catch block,
\* which only logs.
ActionEnds(h, log) == SetEvent(h, [h EXCEPT !.pc = "done", !.log = log])

\* ack() returns or throws; then the type of the action is looked at.
ActionAck(h) ==
    /\ Running(h, "action", "ack")
    /\ LET log1(ok) == Append(h.log, Call("ack", "", "", "", ok))
       IN \/ ActionEnds(h, log1(FALSE))
          \/ CASE h.name = "assign_to_me_btn" ->
                    IF h.type # "button" \/ ~Truthy(h.value)
                    THEN ActionEnds(h, log1(TRUE))
                    ELSE SetEvent(h, [h EXCEPT !.pc = "userinfo", !.log = log1(TRUE)])
               [] h.name = "assign_to_user" ->
                    IF h.type # "static_select" \/ h.option = NoOption
                    THEN ActionEnds(h, log1(TRUE))
                    ELSE SetEvent(h, [h EXCEPT !.pc = "updateIssue", !.log = log1(TRUE),
                                               !.value = h.option.issueId,
                                               !.assigneeId = h.option.userId,
                                               !.userName = h.option.text])
               [] OTHER ->
                    IF h.type # "button" \/ ~Truthy(h.value)
                    THEN ActionEnds(h, log1(TRUE))
                    ELSE SetEvent(h, [h EXCEPT !.pc = "issue", !.log = log1(TRUE)])
    /\ UNCHANGED <<threadMapFile, comments, chat>>

\* client.users.info returns or throws; without an email the handler
\* throws.
ActionUserInfo(h) ==
    /\ Running(h, "action", "userinfo")
    /\ LET log1(ok) == Append(h.log, Call("users.info", h.user, "", "", ok))
       IN \/ ActionEnds(h, log1(FALSE))
          \/ IF ~Truthy(ActionEmailOf(h.user))
             THEN ActionEnds(h, log1(TRUE))
             ELSE SetEvent(h, [h EXCEPT !.pc = "viewer", !.log = log1(TRUE)])
    /\ UNCHANGED <<threadMapFile, comments, chat>>

\* getLinearUserByEmail, first await: linearClient.viewer
ActionViewer(h) ==
    /\ Running(h, "action", "viewer")
    /\ LET log1(ok) == Append(h.log, Call("linear.viewer", "", "", "", ok))
       IN \/ ActionEnds(h, log1(FALSE))
          \/ SetEvent(h, [h EXCEPT !.pc = "linearUser", !.log = log1(TRUE)])
    /\ UNCHANGED <<threadMapFile, comments, chat>>

\* getLinearUserByEmail, second await: users(...); without a Linear user
\* the handler throws.
ActionLinearUser(h) ==
    /\ Running(h, "action", "linearUser")
    /\ LET email == ActionEmailOf(h.user)
           linearUser == ActionLinearUserOf(email)
           log1(ok) == Append(h.log, Call("linear.users", email, "", "", ok))
       IN \/ ActionEnds(h, log1(FALSE))
          \/ IF linearUser = Null
             THEN ActionEnds(h, log1(TRUE))
             ELSE SetEvent(h, [h EXCEPT !.pc = "updateIssue", !.log = log1(TRUE),
                                        !.assigneeId = linearUser,
                                        !.userName = ActionLinearUserName(linearUser)])
    /\ UNCHANGED <<threadMapFile, comments, chat>>

\* linearClient.issue(issueId) returns or throws.
ActionIssue(h) ==
    /\ Running(h, "action", "issue")
    /\ LET log1(ok) == Append(h.log, Call("linear.issue", h.value, "", "", ok))
       IN \/ ActionEnds(h, log1(FALSE))
          \/ SetEvent(h, [h EXCEPT !.pc = "team", !.log = log1(TRUE)])
    /\ UNCHANGED <<threadMapFile, comments, chat>>

\* issue.team returns or throws.
ActionTeam(h) ==
    /\ Running(h, "action", "team")
    /\ LET log1(ok) == Append(h.log, Call("linear.issue.team", h.value, "", "", ok))
       IN \/ ActionEnds(h, log1(FALSE))
          \/ SetEvent(h, [h EXCEPT !.pc = "states", !.log = log1(TRUE)])
    /\ UNCHANGED <<threadMapFile, comments, chat>>

\* workflowStates by name returns or throws: its first node is the done
\* state, without one the states are asked for by type.
ActionStates(h) ==
    /\ Running(h, "action", "states")
    /\ LET nodes == StatesByName(h.teamStates)
           log1(ok) == Append(h.log, Call("linear.workflowStates", "name", "", "", ok))
       IN \/ ActionEnds(h, log1(FALSE))
          \/ IF nodes # <<>>
             THEN SetEvent(h, [h EXCEPT !.pc = "updateIssue", !.log = log1(TRUE),
                                        !.doneState = nodes[1]])
             ELSE SetEvent(h, [h EXCEPT !.pc = "statesByType", !.log = log1(TRUE)])
    /\ UNCHANGED <<threadMapFile, comments, chat>>

\* workflowStates by type returns or throws; without a done state the
\* handler throws.
ActionStatesByType(h) ==
    /\ Running(h, "action", "statesByType")
    /\ LET nodes == StatesByType(h.teamStates)
           log1(ok) == Append(h.log, Call("linear.workflowStates", "type", "", "", ok))
       IN \/ ActionEnds(h, log1(FALSE))
          \/ IF nodes # <<>>
             THEN SetEvent(h, [h EXCEPT !.pc = "updateIssue", !.log = log1(TRUE),
                                        !.doneState = nodes[1]])
             ELSE ActionEnds(h, log1(TRUE))
    /\ UNCHANGED <<threadMapFile, comments, chat>>

\* Mutant of ActionUpdateIssue: a throw of updateIssue is not looked at.
ActionUpdateIssue_ignoresFailure(h) ==
    /\ Running(h, "action", "updateIssue")
    /\ LET threadTs == h.message.thread_ts
           channelId == h.message.channel
           change == IF h.name = "mark_done" THEN h.doneState.id ELSE h.assigneeId
           log1(ok) == Append(h.log, Call("linear.updateIssue", h.value, change, "", ok))
       IN \E ok \in BOOLEAN :
             IF h.name = "mark_done"
             THEN IF Truthy(channelId) /\ Truthy(h.message.ts)
                  THEN SetEvent(h, [h EXCEPT !.pc = "updateOwn", !.log = log1(ok),
                                             !.blocks = RemoveMarkDone(h.message.blocks)])
                  ELSE ActionEnds(h, log1(ok))
             ELSE IF Truthy(threadTs) /\ Truthy(channelId)
                  THEN SetEvent(h, [h EXCEPT !.pc = "replies", !.log = log1(ok)])
                  ELSE ActionEnds(h, log1(ok))
    /\ UNCHANGED <<threadMapFile, comments, chat>>

\* linearClient.updateIssue returns or throws; then the message to patch is
\* looked for.
ActionUpdateIssue(h) ==
    /\ Running(h, "action", "updateIssue")
    /\ LET threadTs == h.message.thread_ts
           channelId == h.message.channel
           change == IF h.name = "mark_done" THEN h.doneState.id ELSE h.assigneeId
           log1(ok) == Append(h.log, Call("linear.updateIssue", h.value, change, "", ok))
       IN \/ ActionEnds(h, log1(FALSE))
          \/ IF h.name = "mark_done"
             THEN IF Truthy(channelId) /\ Truthy(h.message.ts)
                  THEN SetEvent(h, [h EXCEPT !.pc = "updateOwn", !.log = log1(TRUE),
                                             !.blocks = RemoveMarkDone(h.message.blocks)])
                  ELSE ActionEnds(h, log1(TRUE))
             ELSE IF Truthy(threadTs) /\ Truthy(channelId)
                  THEN SetEvent(h, [h EXCEPT !.pc = "replies", !.log = log1(TRUE)])
                  ELSE ActionEnds(h, log1(TRUE))
    /\ UNCHANGED <<threadMapFile, comments, chat>>

\* chat.update of Slack: the blocks and the text of the message are
\* replaced.
ChatUpdate(history, channelId, ts, blocks, text) ==
    [k \in DOMAIN history |->
        IF history[k].channel = channelId /\ history[k].ts = ts
        THEN [history[k] EXCEPT !.blocks = blocks, !.text = text]
        ELSE history[k]]

\* mark_done: chat.update of the message that was clicked returns or
\* throws.
ActionUpdateOwn(h) ==
    /\ Running(h, "action", "updateOwn")
    /\ LET log1(ok) == Append(h.log, Call("chat.update", h.message.ts, h.blocks,
                                          IssueDoneText, ok))
       IN \/ /\ ActionEnds(h, log1(FALSE))
             /\ UNCHANGED chat
          \/ /\ SetEvent(h, [h EXCEPT !.pc = "feedback", !.log = log1(TRUE)])
             /\ chat' = ChatUpdate(chat, h.message.channel, h.message.ts, h.blocks,
                                   IssueDoneText)
    /\ UNCHANGED <<threadMapFile, comments>>

\* mark_done: chat.postMessage of the feedback returns or throws.
ActionFeedback(h) ==
    /\ Running(h, "action", "feedback")
    /\ LET threadTs == IF Truthy(h.message.thread_ts) THEN h.message.thread_ts
                       ELSE h.message.ts
           log1(ok) == Append(h.log, Call("chat.postMessage", h.message.channel, threadTs,
                                          FeedbackText(h.user), ok))
       IN \/ /\ ActionEnds(h, log1(FALSE))
             /\ UNCHANGED chat
          \/ /\ IF Truthy(h.message.thread_ts) /\ Truthy(h.message.channel)
                THEN SetEvent(h, [h EXCEPT !.pc = "replies", !.log = log1(TRUE)])
                ELSE ActionEnds(h, log1(TRUE))
             /\ chat' = Append(chat, BotMessage(h.message.channel, threadTs,
                                                FeedbackText(h.user)))
    /\ UNCHANGED <<threadMapFile, comments>>

\* conversations.replies returns the root message or throws; the field of
\* its blocks is written and the message is sent back.
ActionReplies(h) ==
    /\ Running(h, "action", "replies")
    /\ LET log1(ok) == Append(h.log, Call("conversations.replies", h.message.channel,
                                          h.message.thread_ts, "", ok))
           roots == {m \in RootMessages(chat, h.message.channel, h.message.thread_ts) :
                        "blocks" \in DOMAIN m}
       IN \/ ActionEnds(h, log1(FALSE))
          \/ /\ roots = {}
             /\ ActionEnds(h, log1(TRUE))
          \/ \E rootMessage \in roots :
                SetEvent(h, [h EXCEPT !.pc = "updateRoot", !.log = log1(TRUE),
                    !.blocks = IF h.name = "mark_done"
                               THEN SetFieldOfBlock1(rootMessage.blocks, 2,
                                                     StateField(h.doneState.name))
                               ELSE SetFieldOfBlock1(rootMessage.blocks, 0,
                                                     AssigneeField(h.userName))])
    /\ UNCHANGED <<threadMapFile, comments, chat>>

\* chat.update of the root message returns or throws.
ActionUpdateRoot(h) ==
    /\ Running(h, "action", "updateRoot")
    /\ LET text == IF h.name = "mark_done" THEN IssueDoneStateText(h.doneState.name)
                   ELSE AssigneeChangedText(h.userName)
           log1(ok) == Append(h.log, Call("chat.update", h.message.thread_ts, h.blocks,
                                          text, ok))
       IN \/ /\ ActionEnds(h, log1(FALSE))
             /\ UNCHANGED chat
          \/ /\ ActionEnds(h, log1(TRUE))
             /\ chat' = ChatUpdate(chat, h.message.channel, h.message.thread_ts,
                                   h.blocks, text)
    /\ UNCHANGED <<threadMapFile, comments>>

\* After the command: the root message, with or without the message in its
\* thread.
InitAction ==
    /\ threadMapFile = FileOf("absent", EmptyMap)
    /\ events = <<>>
    /\ comments = <<>>
    /\ chat \in {<<RenderedRoot>>, <<RenderedRoot, RenderedThreadMessage>>}

NextAction ==
    \/ ActionReceive
    \/ \E h \in Handlers : ActionAck(h)
    \/ \E h \in Handlers : ActionUserInfo(h)
    \/ \E h \in Handlers : ActionViewer(h)
    \/ \E h \in Handlers : ActionLinearUser(h)
    \/ \E h \in Handlers : ActionIssue(h)
    \/ \E h \in Handlers : ActionTeam(h)
    \/ \E h \in Handlers : ActionStates(h)
    \/ \E h \in Handlers : ActionStatesByType(h)
    \/ \E h \in Handlers : ActionUpdateIssue(h)
    \/ \E h \in Handlers : ActionUpdateOwn(h)
    \/ \E h \in Handlers : ActionFeedback(h)
    \/ \E h \in Handlers : ActionReplies(h)
    \/ \E h \in Handlers : ActionUpdateRoot(h)

SpecAction == InitAction /\ [][NextAction]_vars

\* thread_map.json is damaged when the process starts: its text is no JSON,
\* or reading it throws (here: the table of an earlier run, in a file the
\* process may write but not read), or it can be neither parsed nor
\* written.
FaultyFiles ==
    { FileOf("corrupt", EmptyMap),
      FileOf("unreadable",
             [k \in {"1SW-42"} |-> [channelId |-> "C1", threadTs |-> "100.1"]]),
      [FileOf("corrupt", EmptyMap) EXCEPT !.writable = FALSE] }

InitFaulty ==
    /\ threadMapFile \in FaultyFiles
    /\ events = <<>>
    /\ comments = <<>>
    /\ chat = InitialChat

SpecFaulty == InitFaulty /\ [][Next]_vars

-----------------------------------------------------------------------------
(* The message handler on thread roots of any text *)

\* Length of the generated root texts.
MaxTextLen == 4

TextAlphabet == {"A", "a", "1", "0", "-", " "}

RECURSIVE TextsOfLen(_)
TextsOfLen(n) ==
    IF n = 0 THEN {""}
    ELSE {t \o c : t \in TextsOfLen(n - 1), c \in TextAlphabet}

\* The texts of the thread root: every text over the alphabet up to the
\* length, and some longer ones with issues that exist.
RootTexts ==
    UNION {TextsOfLen(n) : n \in 0..MaxTextLen}
    \cup { "Fix login [1SW-42] bug", "QA-7 then 1SW-42", "see aQA-7 or QA-7",
           "QA-007 x", "qa-7 1sw-42", "1SW-42QA-7" }

InitExtract ==
    /\ threadMapFile = FileOf("absent", EmptyMap)
    /\ events = <<>>
    /\ comments = <<>>
    /\ \E text \in RootTexts :
          chat = << [channel |-> "C1", ts |-> "100.1", thread_ts |-> Undefined,
                     text |-> text, bot_id |-> Undefined] >>

\* A user replies in the thread of the root; Slack stores the reply and
\* delivers the event.
ReplyReceive ==
    /\ events = <<>>
    /\ LET message == SlackMessage("C1", "100.1", "looks good", "W1", Undefined,
                                   Undefined)
       IN /\ Spawn(MessageEntry(message))
          /\ chat' = Append(chat,
                [channel |-> message.channel, ts |-> SlackTs(Len(chat) + 1),
                 thread_ts |-> message.thread_ts, text |-> message.text,
                 bot_id |-> message.bot_id])
    /\ UNCHANGED <<threadMapFile, comments>>

NextExtract ==
    \/ ReplyReceive
    \/ \E h \in Handlers : MessageReplies(h)
    \/ \E h \in Handlers : MessageIssues(h)
    \/ \E h \in Handlers : MessageUserInfo(h)
    \/ \E h \in Handlers : MessageComment(h)

SpecExtract == InitExtract /\ [][NextExtract]_vars

-----------------------------------------------------------------------------
(* Properties *)

IsWebhook(h) == h.kind = "webhook"
IsMessage(h) == h.kind = "message"
IsCommentCreate(h) ==
    IsWebhook(h) /\ h.req.type = "Comment" /\ h.req.action = "create"

OkCalls(h, call) == {k \in Calls(h, call) : h.log[k].ok}
AllCallsOk(h) == \A k \in DOMAIN h.log : h.log[k].ok

\* The handler has made, or is suspended in, a chat.postMessage call.
Posts(h) == h.pc = "post" \/ Calls(h, "chat.postMessage") # {}

\* The text holds the marker in some letter casing.
ContainsMarkerAnyCasing(text) ==
    text # Undefined /\ Includes(ToLowerCase(text), ToLowerCase("(from Slack by"))

\* The text holds the marker as the code writes it.
ContainsMarker(text) == text # Undefined /\ Includes(text, "(from Slack by")

\* The acknowledgement of a delivery.
Ack200 == Call("res.send", "200", "", "", TRUE)

\* C1 as stated: a Comment-create delivery whose body holds the provenance
\* marker, at any position and in any letter casing, never leads to a chat
\* post, however often it is delivered.
C1_NoPostAnyCasing ==
    \A h \in Handlers :
        IsCommentCreate(h) /\ ContainsMarkerAnyCasing(h.req.data.body) => ~Posts(h)

\* C1 as amended: a Comment-create delivery whose body holds the marker
\* "(from Slack by" in exactly this casing, at any position, never leads to a
\* chat post, however often it is delivered.
C1_NoPostExactMarker ==
    \A h \in Handlers :
        IsCommentCreate(h) /\ ContainsMarker(h.req.data.body) => ~Posts(h)

\* The same delivery, with the marker inside its body, was handled twice.
C1_Witness ==
    \E h \in Handlers :
        /\ IsCommentCreate(h) /\ ContainsMarker(h.req.data.body)
        /\ ~ContainsMarker(SubSeq(h.req.data.body, 1, Len("(from Slack by")))
        /\ h.pc = "done"
        /\ CopiesIn(h, events) >= 2

\* C2: for a Comment-create delivery whose body holds the marker the handler
\* does nothing but acknowledge: no tracker lookup, no store read or
\* write, no search and no post, before or after the drop.
C2_MarkerCheckedFirst ==
    \A h \in Handlers :
        IsCommentCreate(h) /\ ContainsMarker(h.req.data.body) =>
            h.pc = "done" /\ h.log = <<Ack200>>

\* A delivery with the marker was dropped while a delivery for the same issue
\* without it went all the way to a post.
C2_Witness ==
    \E h \in Handlers, g \in Handlers :
        /\ IsCommentCreate(h) /\ ContainsMarker(h.req.data.body) /\ h.pc = "done"
        /\ IsCommentCreate(g) /\ g.req.data.issueId = h.req.data.issueId
        /\ OkCalls(g, "chat.postMessage") # {}

RECURSIVE OkCallCount(_, _)
\* The successful calls `call` of the handlers hs, each handler counted as
\* often as it is in the bag.
OkCallCount(hs, call) ==
    IF hs = {} THEN 0
    ELSE LET h == CHOOSE x \in hs : TRUE
         IN CopiesIn(h, events) * Cardinality(OkCalls(h, call))
            + OkCallCount(hs \ {h}, call)

BotMessages == {k \in DOMAIN chat : chat[k].bot_id = "B0"}

\* C3: a relayed reply gives exactly one tracker comment; the delivery of
\* that comment back to the webhook ends at the marker check, so the chat
\* holds no post for it: every tracker comment stems from one successful
\* createComment call, no message handler calls createComment twice, and
\* every post of the bot stems from a delivery that is not a relayed comment.
C3_ClosedRelayLoop ==
    /\ \A h \in Handlers :
          IsMessage(h) => Cardinality(Calls(h, "linear.createComment")) <= 1
    /\ Len(comments) = OkCallCount({h \in Handlers : IsMessage(h)}, "linear.createComment")
    /\ \A w \in Handlers : IsWebhook(w) /\ w.relay => w.pc = "done" /\ ~Posts(w)
    /\ Cardinality(BotMessages) =
          OkCallCount({w \in Handlers : IsWebhook(w) /\ ~w.relay}, "chat.postMessage")

\* A reply was relayed, its comment came back as a delivery, and the
\* exchange ended with one comment and no post.
C3_Witness ==
    \E m \in Handlers, w \in Handlers :
        /\ IsMessage(m) /\ m.pc = "done" /\ OkCalls(m, "linear.createComment") # {}
        /\ IsWebhook(w) /\ w.relay /\ w.pc = "done"
        /\ Len(comments) = 1 /\ w.req.data.body = comments[1].body
        /\ BotMessages = {}

\* The root message of the thread of `message` names the issue.
RootNamesIssue(message, issue) ==
    \E root \in RootMessages(chat, message.channel, message.thread_ts) :
        Includes(root.text, issue.identifier)

\* The handler made exactly one createComment call: on that issue, with that body.
CommentedOnce(h, issueId, body) ==
    \E k \in DOMAIN h.log :
        /\ Calls(h, "linear.createComment") = {k}
        /\ h.log[k].a = issueId
        /\ h.log[k].b = body

Relayable(message, issueId) ==
    /\ ~Truthy(message.bot_id)
    /\ Truthy(message.thread_ts)
    /\ \E x \in LinearIssues :
          /\ x.id = issueId
          /\ RootNamesIssue(message, x)

\* C5: the message handler calls createComment only for a message that is
\* not from a bot, is a reply, and whose thread root names an issue found by
\* team key and number; whatever the message, the handler posts nothing to
\* the chat and answers nobody.
C5_CommentOnlyIfRelayable ==
    /\ \A h \in Handlers :
          IsMessage(h) /\ (h.pc = "comment" \/ Calls(h, "linear.createComment") # {})
          => /\ Relayable(h.message, h.issueId)
             /\ \E x \in LinearIssues :
                   x.id = h.issueId /\ x.teamKey = h.teamKey /\ x.number = h.issueNumber
    /\ \A k \in DOMAIN comments : Relayable(comments[k].message, comments[k].issueId)
    /\ \A h \in Handlers :
          IsMessage(h) => \A k \in DOMAIN h.log :
              h.log[k].call \in {"conversations.replies", "linear.issues",
                                 "users.info", "linear.createComment"}

\* A bot message in the thread of an issue was dropped, a user's reply in
\* the same thread was relayed.
C5_Witness ==
    \E b \in Handlers, h \in Handlers :
        /\ IsMessage(b) /\ Truthy(b.message.bot_id) /\ Truthy(b.message.thread_ts)
        /\ b.pc = "done" /\ b.log = <<>>
        /\ IsMessage(h) /\ h.message.thread_ts = b.message.thread_ts
        /\ OkCalls(h, "linear.createComment") # {}
        /\ Len(comments) = 1

IsStoreCaller(h) == h.kind = "store"

\* The set calls for the identifier that precede position k of the log.
SetsBefore(log, k, issueIdentifier) ==
    {j \in 1..(k - 1) : log[j].call = "store.set" /\ log[j].a = issueIdentifier}

Last(S) == CHOOSE j \in S : \A i \in S : i <= j

\* C6: get returns none (both fields undefined) for an identifier that was
\* never set, and otherwise exactly the channel and the timestamp of the
\* last set of that identifier; the table holds the identifiers that were
\* set and no other.
C6_GetReturnsLastSet ==
    \A h \in Handlers : IsStoreCaller(h) =>
        /\ \A k \in Calls(h, "store.get") :
              LET sets == SetsBefore(h.log, k, h.log[k].a)
              IN IF sets = {}
                 THEN h.log[k].b = Undefined /\ h.log[k].c = Undefined
                 ELSE /\ h.log[k].b = h.log[Last(sets)].b
                      /\ h.log[k].c = h.log[Last(sets)].c
        /\ DOMAIN StoreLoad(threadMapFile) =
              {h.log[j].a : j \in Calls(h, "store.set")}

\* get of a fresh identifier gave none; after two sets of it, which differ
\* in channel and in timestamp, get gave the second anchor.
C6_Witness ==
    \E h \in Handlers :
        /\ IsStoreCaller(h) /\ Len(h.log) = 4
        /\ h.log[1].call = "store.get" /\ h.log[1].b = Undefined
        /\ h.log[2].call = "store.set" /\ h.log[3].call = "store.set"
        /\ h.log[4].call = "store.get"
        /\ \A k \in 2..4 : h.log[k].a = h.log[1].a
        /\ h.log[2].b # h.log[3].b /\ h.log[2].c # h.log[3].c
        /\ h.log[4].b = h.log[3].b /\ h.log[4].c = h.log[3].c

\* C7: a webhook handler whose store lookup gave an anchor makes no search
\* and no store write, and makes one post: to the channel and the thread of
\* that anchor.
C7_MappedThreadIsUsed ==
    \A h \in Handlers : IsWebhook(h) =>
        \A k \in Calls(h, "store.get") : Truthy(h.log[k].b) =>
            /\ Calls(h, "search.messages") = {}
            /\ Calls(h, "store.set") = {}
            /\ \/ /\ h.pc = "post"
                  /\ Calls(h, "chat.postMessage") = {}
                  /\ h.channelId = h.log[k].b /\ h.threadTs = h.log[k].c
               \/ /\ h.pc = "done"
                  /\ Calls(h, "chat.postMessage") = {k + 1}
                  /\ h.log[k + 1].a = h.log[k].b
                  /\ h.log[k + 1].b = h.log[k].c

\* A post was made to the mapped thread although a later message of the chat
\* names the identifier.
C7_Witness ==
    \E h \in Handlers : \E k \in DOMAIN h.log, i \in DOMAIN chat, j \in DOMAIN chat :
        /\ IsWebhook(h) /\ h.pc = "done"
        /\ h.log[k].call = "store.get" /\ Truthy(h.log[k].b)
        /\ OkCalls(h, "chat.postMessage") = {k + 1}
        /\ chat[i].ts = h.log[k + 1].b /\ chat[i].channel = h.log[k + 1].a
        /\ i < j /\ j <= Len(InitialChat) /\ Includes(chat[j].text, h.issueIdentifier)

\* The search of the handler returned a match with a channel and a timestamp.
SearchHits(h) ==
    {k \in OkCalls(h, "search.messages") : Truthy(h.log[k].b) /\ Truthy(h.log[k].c)}

\* Handler h has just made its store lookup in this step.
JustLookedUp(h) ==
    /\ IsWebhook(h)
    /\ CopiesIn(h, events') > CopiesIn(h, events)
    /\ h.pc \in {"search", "post"}
    /\ h.log[Len(h.log)].call = "store.get"

\* Some handler has written an anchor of the identifier to the store.
WrittenBack(issueIdentifier) ==
    \E g \in Handlers : \E j \in Calls(g, "store.set") : g.log[j].a = issueIdentifier

\* C8: a search that returns a match is followed at once by the store write
\* of the match's channel and timestamp under the identifier, and then by
\* the post to that thread; and a store lookup made after such a write for
\* the same identifier gives an anchor, so that handler goes to its post
\* without a search.
C8_WriteBack ==
    /\ [](\A h \in Handlers : IsWebhook(h) =>
            \A k \in SearchHits(h) :
               /\ k + 1 \in DOMAIN h.log
               /\ h.log[k + 1] = Call("store.set", h.log[k].a, h.log[k].b, h.log[k].c, TRUE)
               /\ \/ h.pc = "post" /\ h.channelId = h.log[k].b /\ h.threadTs = h.log[k].c
                  \/ /\ h.pc = "done"
                     /\ Calls(h, "chat.postMessage") = {k + 2}
                     /\ h.log[k + 2].a = h.log[k].b
                     /\ h.log[k + 2].b = h.log[k].c)
    /\ [][\A h \in BagToSet(events') :
            JustLookedUp(h) /\ WrittenBack(h.issueIdentifier) =>
               /\ h.pc = "post"
               /\ \E g \in Handlers : \E j \in Calls(g, "store.set") :
                     /\ g.log[j].a = h.issueIdentifier
                     /\ g.log[j].b = h.channelId
                     /\ g.log[j].c = h.threadTs]_vars

\* One handler searched, wrote the match back and posted; another handler
\* for the same identifier got that anchor from the store and posted to it
\* without a search.
C8_Witness ==
    \E g \in Handlers, h \in Handlers :
        /\ IsWebhook(g) /\ IsWebhook(h)
        /\ SearchHits(g) # {} /\ OkCalls(g, "chat.postMessage") # {}
        /\ h.issueIdentifier = g.issueIdentifier
        /\ Calls(h, "search.messages") = {}
        /\ \E k \in Calls(h, "store.get"), j \in Calls(g, "store.set") :
              /\ h.log[k].b = g.log[j].b /\ h.log[k].c = g.log[j].c
              /\ OkCalls(h, "chat.postMessage") = {k + 1}
              /\ h.log[k + 1].a = g.log[j].b /\ h.log[k + 1].b = g.log[j].c

\* The store lookup of the handler gave nothing and its search returned no match.
Unresolved(h, k) ==
    /\ h.log[k].call = "store.get" /\ ~Truthy(h.log[k].b)
    /\ k + 1 \in OkCalls(h, "search.messages")
    /\ ~Truthy(h.log[k + 1].b)

\* C9: a webhook handler that finds neither an anchor in the store nor a
\* search match ends there: no post, no store write, no further call; and
\* the file is as it was at the start as long as no handler wrote to it.
C9_UnresolvedIsDropped ==
    /\ \A h \in Handlers : IsWebhook(h) =>
          \A k \in DOMAIN h.log : Unresolved(h, k) =>
              /\ h.pc = "done"
              /\ Len(h.log) = k + 1
              /\ Calls(h, "chat.postMessage") = {}
              /\ Calls(h, "store.set") = {}
    /\ (\A h \in Handlers : Calls(h, "store.set") = {}) => threadMapFile \in InitialFiles

\* A delivery for an issue that no chat message names ended after the
\* search, and nothing was written or posted.
C9_Witness ==
    \E h \in Handlers : \E k \in DOMAIN h.log :
        /\ IsWebhook(h) /\ Unresolved(h, k) /\ h.pc = "done"
        /\ BotMessages = {}
        /\ threadMapFile \in InitialFiles

\* C10: the first thing every webhook handler does is to send the empty 200
\* response, once, whatever the delivery and whatever happens later.
C10_AcknowledgedFirst ==
    \A h \in Handlers : IsWebhook(h) =>
        /\ Len(h.log) >= 1
        /\ h.log[1] = Ack200
        /\ Calls(h, "res.send") = {1}

\* Two deliveries were acknowledged alike: one ended in an exception, one in a post.
C10_Witness ==
    \E g \in Handlers, h \in Handlers :
        /\ IsWebhook(g) /\ IsWebhook(h)
        /\ g.pc = "done" /\ ~AllCallsOk(g)
        /\ h.pc = "done" /\ OkCalls(h, "chat.postMessage") # {}
        /\ g.log[1] = Ack200 /\ h.log[1] = Ack200


-----------------------------------------------------------------------------
(* Properties of the store under interleaved handlers *)

\* Webhook handler h has just written its search match to the store.
JustWroteBack(h) ==
    /\ IsWebhook(h)
    /\ CopiesIn(h, events') > CopiesIn(h, events)
    /\ Len(h.log) >= 2
    /\ h.log[Len(h.log)].call = "store.set"
    /\ h.log[Len(h.log) - 1].call = "search.messages"

\* C11: a mapping, once written, is authoritative: in no step does a
\* webhook handler that resumes from its search replace the anchor that the
\* store holds for the identifier by the anchor of its search match,
\* whatever other handlers (the create-issue command, other deliveries) did
\* while it was suspended.
C11_MappingIsAuthoritative ==
    [][\A h \in BagToSet(events') :
          (JustWroteBack(h) /\ StoreGet(threadMapFile, h.issueIdentifier) # UndefinedAnchor)
             => StoreGet(threadMapFile', h.issueIdentifier)
                    = StoreGet(threadMapFile, h.issueIdentifier)]_vars

\* The anchor that the create-issue command wrote for its issue was replaced
\* by the search match of a webhook handler that had looked the identifier
\* up before the command wrote it.
C11_CommandMappingReplaced ==
    \E c \in Handlers, h \in Handlers :
        /\ IsCommand(c) /\ IsWebhook(h)
        /\ h.issueIdentifier = c.issueIdentifier
        /\ \E j \in Calls(c, "store.set"), k \in Calls(h, "store.set") :
              /\ h.log[k].c # c.log[j].c
              /\ StoreGet(threadMapFile, c.issueIdentifier).threadTs = h.log[k].c

-----------------------------------------------------------------------------
(* Damaged storage *)

StorageDamaged(file) == file.state \in {"corrupt", "unreadable"}

-----------------------------------------------------------------------------
(* Two handlers that write to the store *)

\* The set call that a handler suspended in front of one makes when the
\* call it awaits returns: the command after its root post, a webhook
\* handler after a search with a match.  set itself awaits nothing
\* (readFileSync, writeFileSync), so no other handler runs inside it.
PendingSets ==
    { [handler |-> h, id |-> h.issueIdentifier, channelId |-> h.command.channel_id,
       threadTs |-> SlackTs(Len(chat) + 1)] :
         h \in {c \in Handlers : IsCommand(c) /\ c.pc = "rootPost"} }
    \cup
    { [handler |-> h, id |-> h.issueIdentifier,
       channelId |-> SearchMessages(chat, h.issueIdentifier).channel,
       threadTs |-> SearchMessages(chat, h.issueIdentifier).ts] :
         h \in {w \in Handlers : /\ IsWebhook(w) /\ w.pc = "search"
                                 /\ SearchMessages(chat, w.issueIdentifier) # NoMatch} }

AfterSets(file, first, second) ==
    StoreSet(StoreSet(file, first.id, first.channelId, first.threadTs),
             second.id, second.channelId, second.threadTs)

\* C13 as stated: for two handlers about to call set for different
\* identifiers there is an order of their resumptions after which both
\* calls have completed and the table lacks one of the two entries.
C13_LostUpdatePossible ==
    \A p \in PendingSets, q \in PendingSets :
        p.id # q.id =>
            \E order \in {<<p, q>>, <<q, p>>} :
                ~({p.id, q.id} \subseteq
                      DOMAIN StoreLoad(AfterSets(threadMapFile, order[1], order[2])))

\* C13, amended: set runs without suspension, so with a readable and
\* writable file no interleaving loses an update: every identifier that some
\* handler has set has an entry, and every entry of the table is one anchor
\* (a channel and a timestamp) that some handler has set for that identifier.
C13_NoLostUpdate ==
    LET table == StoreLoad(threadMapFile)
    IN /\ \A h \in Handlers : \A k \in Calls(h, "store.set") :
             h.log[k].a \in DOMAIN table
       /\ \A id \in DOMAIN table :
             /\ Truthy(table[id].channelId) /\ Truthy(table[id].threadTs)
             /\ \E h \in Handlers : \E k \in Calls(h, "store.set") :
                   /\ h.log[k].a = id
                   /\ h.log[k].b = table[id].channelId
                   /\ h.log[k].c = table[id].threadTs

\* The command and a webhook handler for another issue ran interleaved, both
\* have called set and ended, and the table has both entries.
C13_Witness ==
    \E c \in Handlers, h \in Handlers :
        /\ IsCommand(c) /\ IsWebhook(h)
        /\ c.pc = "done" /\ h.pc = "done"
        /\ Calls(c, "store.set") # {} /\ Calls(h, "store.set") # {}
        /\ h.issueIdentifier # c.issueIdentifier
        /\ \E k \in Calls(h, "search.messages"), j \in Calls(c, "linear.createIssue"),
              i \in Calls(c, "store.set") :
                 Len(h.log) > k /\ Len(c.log) > i
        /\ {c.issueIdentifier, h.issueIdentifier} \subseteq DOMAIN StoreLoad(threadMapFile)

-----------------------------------------------------------------------------
(* Entries and damaged storage *)

\* The table that thread_map.json holds, readable or not.
StoredTable(file) ==
    IF file.state \in {"json", "unreadable"} THEN file.data ELSE EmptyMap

\* The caller has just called set.
JustSet(h) ==
    /\ IsStoreCaller(h)
    /\ CopiesIn(h, events') > CopiesIn(h, events)
    /\ Len(h.log) >= 1
    /\ h.log[Len(h.log)].call = "store.set"

\* C14: entries are never deleted: a call set(id, anchor) leaves every other
\* identifier that the table of the file held before the call with the same
\* entry after it, also when the file was corrupt or unreadable at the time
\* of the call.
C14_EntriesNeverDeleted ==
    [][\A h \in BagToSet(events') :
          JustSet(h) =>
             \A k \in DOMAIN StoredTable(threadMapFile) \ {h.log[Len(h.log)].a} :
                /\ k \in DOMAIN StoredTable(threadMapFile')
                /\ StoredTable(threadMapFile')[k] = StoredTable(threadMapFile)[k]]_vars

\* What the caller sees: get returned an anchor for an identifier; later the
\* caller set another identifier; after that, with the file readable, get
\* returns nothing for the first identifier.
C14_EntryLost ==
    /\ threadMapFile.state = "json"
    /\ \E h \in Handlers :
          /\ IsStoreCaller(h)
          /\ \E i \in Calls(h, "store.get"), j \in Calls(h, "store.set") :
                /\ i < j /\ j + 1 = Len(h.log)
                /\ Truthy(h.log[i].b)
                /\ h.log[j].a # h.log[i].a
                /\ \A m \in Calls(h, "store.set") : m > i => h.log[m].a # h.log[i].a
                /\ h.log[j + 1] = Call("store.get", h.log[i].a, Undefined, Undefined, TRUE)

-----------------------------------------------------------------------------
(* Anchors *)

\* The message of the chat with that channel and timestamp is the root of
\* a thread: it is no reply.
IsRootMessage(channelId, threadTs) ==
    \E m \in Range(chat) :
        m.channel = channelId /\ m.ts = threadTs /\ m.thread_ts = Undefined

\* C15: every anchor of the store, whether the create-issue command or the
\* write-back of a webhook handler wrote it, is the root message of a
\* thread, never a reply.
C15_AnchorsAreRoots ==
    \A id \in DOMAIN StoreLoad(threadMapFile) :
        IsRootMessage(StoreLoad(threadMapFile)[id].channelId,
                      StoreLoad(threadMapFile)[id].threadTs)

\* The store holds the timestamp of a reply, written back from a search.
C15_ReplyStored ==
    \E id \in DOMAIN StoreLoad(threadMapFile) :
        /\ \E m \in Range(chat) :
              /\ m.channel = StoreLoad(threadMapFile)[id].channelId
              /\ m.ts = StoreLoad(threadMapFile)[id].threadTs
              /\ m.thread_ts # Undefined
        /\ \E h \in Handlers : IsWebhook(h) /\
              \E k \in Calls(h, "store.set") :
                 h.log[k].a = id /\ h.log[k].c = StoreLoad(threadMapFile)[id].threadTs

-----------------------------------------------------------------------------
(* The create-issue command *)

\* The command ran to its end without a refusal or an error.
CompletedSuccessfully(c) ==
    /\ IsCommand(c) /\ c.pc = "done"
    /\ AllCallsOk(c)
    /\ Calls(c, "respond") = {}

\* The store write of the command comes right after its successful root
\* post and before any post into the thread of that root.
WrittenBetweenPosts(c) ==
    \A k \in Calls(c, "store.set") :
        /\ k > 1
        /\ c.log[k - 1].call = "chat.postMessage" /\ c.log[k - 1].ok
        /\ c.log[k - 1].b = Undefined
        /\ c.log[k] = Call("store.set", c.issueIdentifier, c.command.channel_id,
                           c.rootTs, TRUE)
        /\ \A j \in Calls(c, "chat.postMessage") : j # k - 1 => j > k

\* C16: after a create-issue command has completed successfully, get of the
\* new issue's identifier returns the command's channel and the timestamp of
\* the posted root message; and the mapping is written only after the root
\* message was posted successfully and before the thread message is posted.
C16_CommandMapping ==
    \A c \in Handlers : IsCommand(c) =>
        /\ WrittenBetweenPosts(c)
        /\ CompletedSuccessfully(c) =>
              StoreGet(threadMapFile, c.issueIdentifier) =
                  [channelId |-> c.command.channel_id, threadTs |-> c.rootTs]

\* The order of the command's calls alone.
C16_Order == \A c \in Handlers : IsCommand(c) => WrittenBetweenPosts(c)

\* The command completed successfully, and the store holds for its issue the
\* anchor that a webhook handler wrote back from its search.
C16_MappingOverwritten ==
    \E c \in Handlers, h \in Handlers :
        /\ CompletedSuccessfully(c) /\ IsWebhook(h)
        /\ \E k \in Calls(h, "store.set") :
              /\ h.log[k].a = c.issueIdentifier
              /\ h.log[k].c # c.rootTs
              /\ StoreGet(threadMapFile, c.issueIdentifier) =
                    [channelId |-> h.log[k].b, threadTs |-> h.log[k].c]

-----------------------------------------------------------------------------
(* Issue identifiers *)

DigitChar(d) ==
    CASE d = 0 -> "0" [] d = 1 -> "1" [] d = 2 -> "2" [] d = 3 -> "3"
      [] d = 4 -> "4" [] d = 5 -> "5" [] d = 6 -> "6" [] d = 7 -> "7"
      [] d = 8 -> "8" [] d = 9 -> "9"

\* `${n}` for a natural number n.
RECURSIVE NumberString(_)
NumberString(n) ==
    IF n < 10 THEN DigitChar(n) ELSE NumberString(n \div 10) \o DigitChar(n % 10)

\* teamKey + "-" + number
JoinIdentifier(teamKey, number) == teamKey \o "-" \o NumberString(number)

\* The handler has taken an identifier from the root text and split it.
HasSplit(h) == IsMessage(h) /\ h.issueIdentifier # ""

\* The digits of the identifier are the decimal notation of a number: a
\* single 0, or digits that do not start with 0.
CanonicalNumber(issueIdentifier) ==
    LET d == LastDashIndex(issueIdentifier)
    IN d + 1 = Len(issueIdentifier) \/ Char(issueIdentifier, d + 1) # "0"

\* C17 as stated: for every identifier taken from a root text (they match
\* [A-Z0-9]+-[0-9]+, with leading zeros and with digits in the team key),
\* the team key and the number it is split into, joined by "-", give the
\* identifier.
C17_RoundTrip ==
    \A h \in Handlers :
        HasSplit(h) => JoinIdentifier(h.teamKey, h.issueNumber) = h.issueIdentifier

\* C17, amended: the same for the identifiers whose number is written
\* without leading zeros; the team key is the text before the dash.
C17_RoundTripCanonical ==
    \A h \in Handlers :
        HasSplit(h) =>
            /\ h.teamKey \o "-" = SubSeq(h.issueIdentifier, 1, Len(h.teamKey) + 1)
            /\ \A k \in 1..Len(h.teamKey) : IsKeyChar(Char(h.teamKey, k))
            /\ CanonicalNumber(h.issueIdentifier) =>
                  JoinIdentifier(h.teamKey, h.issueNumber) = h.issueIdentifier

\* An identifier whose team key holds a digit was split and joins back.
C17_Witness ==
    \E h \in Handlers :
        /\ HasSplit(h)
        /\ h.issueIdentifier = "1SW-42" /\ h.teamKey = "1SW" /\ h.issueNumber = 42
        /\ JoinIdentifier(h.teamKey, h.issueNumber) = "1SW-42"

-----------------------------------------------------------------------------
(* Identifier extraction *)

\* text[i..j] is a token [A-Z0-9]+-[0-9]+ that stands as a whole word: the
\* characters next to it, if any, are no word characters.
IsIdentifierToken(text, i, j) ==
    /\ 1 <= i /\ i <= j /\ j <= Len(text)
    /\ \E d \in (i + 1)..(j - 1) :
          /\ Char(text, d) = "-"
          /\ \A k \in i..(d - 1) : Char(text, k) \in UpperChars \cup DigitChars
          /\ \A k \in (d + 1)..j : Char(text, k) \in DigitChars
    /\ i = 1 \/ ~IsWordChar(Char(text, i - 1))
    /\ j = Len(text) \/ ~IsWordChar(Char(text, j + 1))

TokensOf(text) ==
    {p \in (1..Len(text)) \X (1..Len(text)) : IsIdentifierToken(text, p[1], p[2])}

\* The leftmost whole-word token of the text, Null when it has none.
FirstToken(text) ==
    IF TokensOf(text) = {} THEN Null
    ELSE LET p == CHOOSE q \in TokensOf(text) : \A r \in TokensOf(text) : q[1] <= r[1]
         IN SubSeq(text, p[1], p[2])

\* The handler has received the root message of its thread.
HasRoot(h) == IsMessage(h) /\ OkCalls(h, "conversations.replies") # {}

TrackerCalls(h) ==
    Calls(h, "linear.issues") \cup Calls(h, "linear.createComment")

\* C18: the identifier that the handler takes from the text of the thread
\* root is the first (leftmost) whole-word token [A-Z0-9]+-[0-9]+ of that
\* text; it holds no lower-case letter; and when the text has no such token
\* (also when a matching run is part of a longer word or written in lower
\* case) the handler ends without a call to the tracker.
C18_FirstWholeWordToken ==
    \A h \in Handlers : HasRoot(h) =>
        \A rootMessage \in RootMessages(chat, h.message.channel, h.message.thread_ts) :
            LET token == FirstToken(rootMessage.text)
            IN IF token = Null
               THEN /\ h.pc = "done" /\ h.issueIdentifier = ""
                    /\ Len(h.log) = 1 /\ TrackerCalls(h) = {}
               ELSE /\ h.issueIdentifier = token
                    /\ \A k \in 1..Len(token) : Char(token, k) \notin LowerChars
                    /\ h.pc = "issues" \/ Calls(h, "linear.issues") # {}

\* The root text holds two tokens after an embedded run, and the handler took
\* the first whole-word one to the tracker.
C18_Witness ==
    \E h \in Handlers :
        /\ HasRoot(h)
        /\ chat[1].text = "see aQA-7 or QA-7"
        /\ h.issueIdentifier = "QA-7"
        /\ OkCalls(h, "linear.issues") # {}

\* A root text with a lower-case run and one with an embedded run: the
\* handler ended without a tracker call.
C18_NoneWitness ==
    \E h \in Handlers :
        /\ HasRoot(h) /\ h.pc = "done"
        /\ chat[1].text \in {"qa-7 1sw-42", "1SW-42QA-7", "aA-1"}
        /\ TrackerCalls(h) = {}

-----------------------------------------------------------------------------
(* The tags of a title *)

IsRow(h) == h.kind = "row" /\ h.pc = "row"

\* 1-based position of the first "[" of the title, 0 when it has none.
FirstBracket(title) ==
    LET bs == {i \in 1..Len(title) : Char(title, i) = "["}
    IN IF bs = {} THEN 0 ELSE CHOOSE i \in bs : \A j \in bs : i <= j

\* title[a..b] is a bracketed group: "[", one or more characters other than
\* "]", and "]".
IsGroup(title, a, b) ==
    /\ 1 <= a /\ a + 1 < b /\ b <= Len(title)
    /\ Char(title, a) = "[" /\ Char(title, b) = "]"
    /\ \A k \in (a + 1)..(b - 1) : Char(title, k) # "]"

\* Everything in front of position i is white space or lies in a bracketed
\* group that ends in front of i.
OnlyGroupsBefore(title, i) ==
    \A k \in 1..(i - 1) :
        \/ Char(title, k) \in WhiteSpace
        \/ \E a \in 1..k, b \in k..(i - 1) : IsGroup(title, a, b)

\* The groups of the leading run, as pairs of positions.
LeadingGroups(title) ==
    {g \in (1..Len(title)) \X (1..Len(title)) :
        IsGroup(title, g[1], g[2]) /\ OnlyGroupsBefore(title, g[1])}

\* The groups of the leading run from left to right.
LeadingGroupSeq(title) ==
    LET G == LeadingGroups(title)
    IN [n \in 1..Cardinality(G) |->
          CHOOSE g \in G : Cardinality({f \in G : f[1] < g[1]}) = n - 1]

NotEmpty(t) == t # ""

\* The trimmed contents of the groups of the leading run, without the empty
\* ones, from left to right.
LeadingTags(title) ==
    LET gs == LeadingGroupSeq(title)
    IN SelectSeq([n \in DOMAIN gs |-> Trim(SubSeq(title, gs[n][1] + 1, gs[n][2] - 1))],
                 NotEmpty)

\* C19 as stated: the tags come only from a contiguous run of bracketed
\* groups that starts at position 0: "[A] [B] rest" gives A and B, a title
\* without brackets gives none, and every title whose first bracket is not at
\* position 0 gives none.
C19_TagsStartAtPositionZero ==
    \A h \in Handlers : IsRow(h) =>
        /\ h.title = "[A] [B] rest" => h.tags = <<"A", "B">>
        /\ FirstBracket(h.title) = 0 => h.tags = <<>>
        /\ FirstBracket(h.title) # 1 => h.tags = <<>>
        /\ h.tags # <<>> => h.tags = LeadingTags(h.title)

\* C19, amended: the run may follow leading white space: the tags are the
\* trimmed, non-empty contents of the bracketed groups of the run that
\* starts at the first character of the title that is no white space, from
\* left to right; a title without brackets, and every title whose first
\* character other than white space is no "[", gives none.
C19_TagsOfLeadingRun ==
    \A h \in Handlers : IsRow(h) =>
        /\ h.tags = LeadingTags(h.title)
        /\ h.title = "[A] [B] rest" => h.tags = <<"A", "B">>
        /\ FirstBracket(h.title) = 0 => h.tags = <<>>
        /\ (\E k \in 1..(FirstBracket(h.title) - 1) : Char(h.title, k) \notin WhiteSpace)
              => h.tags = <<>>

\* The title with two groups and a rest has given its two tags.
C19_Witness ==
    \E h \in Handlers : IsRow(h) /\ h.title = "[A] [B] rest" /\ h.tags = <<"A", "B">>

\* Titles with brackets that are not in front gave no tag.
C19_MidWitness ==
    \E h \in Handlers :
        IsRow(h) /\ h.title \in {"mid [X] tag", "x[A] [B]", "A [B]"} /\ h.tags = <<>>

-----------------------------------------------------------------------------
(* The groups of the rows *)

IsGrouped(h) == h.kind = "list" /\ h.mode = "tag" /\ h.pc # "rows"

Unfiltered(h) == IsGrouped(h) /\ h.requestedTag = Undefined

\* The keys of the groups that hold the row.
GroupsOf(grouped, r) ==
    IF grouped.threw THEN {}
    ELSE {grouped.keys[n] : n \in {m \in DOMAIN grouped.keys :
              \E k \in DOMAIN grouped.rows[grouped.keys[m]] :
                  grouped.rows[grouped.keys[m]][k] = r}}

TagSet(r) == {r.tags[n] : n \in DOMAIN r.tags}

\* The groups a row belongs in without a filter.
ExpectedGroups(r) == IF Len(r.tags) = 0 THEN {NoTagKey} ELSE TagSet(r)

\* C20: without a filter a row with N >= 1 distinct tags is a member of
\* exactly the N groups keyed by its tags, and a row without tags is a
\* member of the group NoTag and of no other.
C20_RowInItsTagGroups ==
    \A h \in Handlers : Unfiltered(h) =>
        \A n \in DOMAIN h.rows : GroupsOf(h.grouped, h.rows[n]) = ExpectedGroups(h.rows[n])

\* The same membership for the lists in which no tag is the name of an
\* inherited property.
C20_RowInItsTagGroupsPlainTags ==
    \A h \in Handlers : Unfiltered(h) =>
        \/ \E n \in DOMAIN h.rows : TagSet(h.rows[n]) \cap ObjectPrototypeKeys # {}
        \/ /\ ~h.grouped.threw
           /\ \A n \in DOMAIN h.rows :
                 GroupsOf(h.grouped, h.rows[n]) = ExpectedGroups(h.rows[n])

\* A list with a row tagged "constructor" was grouped: the grouping threw and
\* its rows are in no group.
C20_GroupingThrew ==
    \E h \in Handlers :
        /\ Unfiltered(h)
        /\ h.grouped.threw
        /\ \E n \in DOMAIN h.rows : h.rows[n].tags = <<"A", "B">>
        /\ \E n \in DOMAIN h.rows : h.rows[n].tags = <<"constructor">>

\* A row with two tags is in both groups and a row without tags in NoTag.
C20_Duplicated ==
    \E h \in Handlers :
        /\ Unfiltered(h)
        /\ \E n \in DOMAIN h.rows :
              /\ h.rows[n].tags = <<"A", "B">>
              /\ GroupsOf(h.grouped, h.rows[n]) = {"A", "B"}
        /\ \E n \in DOMAIN h.rows :
              /\ h.rows[n].tags = <<>>
              /\ GroupsOf(h.grouped, h.rows[n]) = {NoTagKey}

-----------------------------------------------------------------------------
(* The groups of the rows under a filter *)

Filtered(h) == IsGrouped(h) /\ ~NoRequestedTag(h.requestedTag)

\* The row carries the tag, or the tag is the one of the rows without tags
\* and the row has none.
Matches(r, f) == f \in TagSet(r) \/ (f = NoTagKey /\ Len(r.tags) = 0)

\* The rows that match the tag, in the order of the input.
MatchingRows(rows, f) ==
    LET test(r) == Matches(r, f)
    IN SelectSeq(rows, test)

\* The result is the single group f with the rows given, or no group at all
\* when there are none.
IsOnlyGroup(grouped, f, rows) ==
    /\ ~grouped.threw
    /\ grouped.keys = IF rows = <<>> THEN <<>> ELSE <<f>>
    /\ rows # <<>> => grouped.rows[f] = rows

\* Some tag is twice in the tag list of the row.
HasRepeatedTag(r) == Cardinality(TagSet(r)) < Len(r.tags)

\* C21: with a filter f the result has no group key other than f, the group
\* f holds exactly the rows that carry f (and the rows without tags when f is
\* NoTag) in input order, and the result is empty when no row matches.
C21_OnlyTheFilteredGroup ==
    \A h \in Handlers : Filtered(h) =>
        IsOnlyGroup(h.grouped, h.requestedTag, MatchingRows(h.rows, h.requestedTag))

\* The same for the filters that are no inherited property name and the
\* lists in which no matching row repeats a tag.
C21_OnlyTheFilteredGroupPlain ==
    \A h \in Handlers : Filtered(h) =>
        \/ h.requestedTag \in ObjectPrototypeKeys
        \/ \E n \in DOMAIN h.rows : HasRepeatedTag(h.rows[n])
        \/ IsOnlyGroup(h.grouped, h.requestedTag, MatchingRows(h.rows, h.requestedTag))

\* Never a key other than the filter, and never a row that does not match.
C21_NothingElse ==
    \A h \in Handlers : Filtered(h) /\ ~h.grouped.threw =>
        /\ \A n \in DOMAIN h.grouped.keys : h.grouped.keys[n] = h.requestedTag
        /\ \A n \in DOMAIN h.rows :
              ~Matches(h.rows[n], h.requestedTag) => GroupsOf(h.grouped, h.rows[n]) = {}

\* The filter "constructor" met a row tagged "constructor": the grouping
\* threw.
C21_FilteredGroupingThrew ==
    \E h \in Handlers :
        /\ Filtered(h)
        /\ h.requestedTag = "constructor"
        /\ h.grouped.threw
        /\ \E n \in DOMAIN h.rows : h.rows[n].tags = <<"constructor">>

\* A row tagged A twice is twice in the group of the filter A.
C21_ListedTwice ==
    \E h \in Handlers :
        /\ Filtered(h)
        /\ h.requestedTag = "A"
        /\ Len(h.rows) = 1 /\ h.rows[1].tags = <<"A", "A">>
        /\ h.grouped.rows["A"] = <<h.rows[1], h.rows[1]>>

\* The filter A kept the rows tagged A, in input order, and dropped another.
C21_FilteredWitness ==
    \E h \in Handlers :
        /\ Filtered(h)
        /\ h.requestedTag = "A"
        /\ Len(h.rows) = 3
        /\ h.rows[1].tags = <<"A", "B">> /\ h.rows[2].tags = <<"B">> /\ h.rows[3].tags = <<"A">>
        /\ h.grouped.keys = <<"A">>
        /\ h.grouped.rows["A"] = <<h.rows[1], h.rows[3]>>

-----------------------------------------------------------------------------
(* The order of the groups *)

\* The keys of the groups of h have been sorted.
HasSorted(h) == h.kind = "list" /\ h.groupKeys # <<>>

GroupSize(grouped, key) == Len(grouped.rows[key])

\* s is a permutation of t.
IsPermutation(s, t) ==
    /\ Len(s) = Len(t)
    /\ \A x \in Range(s) \cup Range(t) :
          Cardinality({n \in DOMAIN s : s[n] = x}) = Cardinality({n \in DOMAIN t : t[n] = x})

\* The same groups with their keys inserted in another order.
Reinsertions(grouped) ==
    LET n == Len(grouped.keys)
        perms == {f \in [1..n -> 1..n] : \A i, j \in 1..n : f[i] = f[j] => i = j}
    IN {[grouped EXCEPT !.keys = [i \in 1..n |-> grouped.keys[f[i]]]] : f \in perms}

\* Comparison of two texts by their code units.
AsciiOrder == " +-0123456789ABCDEFGHIJKLMNOPQRSTUVWXYZ[]_abcdefghijklmnopqrstuvwxyz"

CodeUnit(c) == PositionIn(AsciiOrder, c)

IsLatin(key) == CanonicalForm(key) # HangulDecomposed

\* C22: sortGroupKeys returns a permutation of the keys in which an earlier
\* key has a group at least as large as a later key and keys of equal group
\* size ascend in the order of the comparison, and the result is the same
\* for the same groups in any order of insertion.
C22_SortedAndReproducible ==
    \A h \in Handlers : HasSorted(h) =>
        /\ IsPermutation(h.groupKeys, h.grouped.keys)
        /\ \A i, j \in DOMAIN h.groupKeys : i < j =>
              /\ GroupSize(h.grouped, h.groupKeys[i]) >= GroupSize(h.grouped, h.groupKeys[j])
              /\ GroupSize(h.grouped, h.groupKeys[i]) = GroupSize(h.grouped, h.groupKeys[j])
                    => localeCompare(h.groupKeys[i], h.groupKeys[j]) <= 0
        /\ \A g \in Reinsertions(h.grouped) : sortGroupKeys(g) = h.groupKeys

\* The same with strictly ascending keys, for the groups of which no two
\* keys are canonically equivalent.
C22_SortedAndReproduciblePlain ==
    \A h \in Handlers : HasSorted(h) =>
        \/ \E a, b \in Range(h.grouped.keys) : a # b /\ CanonicalForm(a) = CanonicalForm(b)
        \/ /\ IsPermutation(h.groupKeys, h.grouped.keys)
           /\ \A i, j \in DOMAIN h.groupKeys : i < j =>
                 /\ GroupSize(h.grouped, h.groupKeys[i]) >= GroupSize(h.grouped, h.groupKeys[j])
                 /\ GroupSize(h.grouped, h.groupKeys[i]) = GroupSize(h.grouped, h.groupKeys[j])
                       => localeCompare(h.groupKeys[i], h.groupKeys[j]) < 0
           /\ \A g \in Reinsertions(h.grouped) : sortGroupKeys(g) = h.groupKeys

\* The order of the size and of the comparison holds for every list.
C22_SortedBySizeThenCollation ==
    \A h \in Handlers : HasSorted(h) =>
        /\ IsPermutation(h.groupKeys, h.grouped.keys)
        /\ \A i, j \in DOMAIN h.groupKeys : i < j => CompareKeys(h.grouped, h.groupKeys[i], h.groupKeys[j]) <= 0

\* Latin keys of equal group size ascend by their code units.
C22_CodeUnitOrder ==
    \A h \in Handlers : HasSorted(h) =>
        \A i, j \in DOMAIN h.groupKeys :
            /\ i < j
            /\ IsLatin(h.groupKeys[i]) /\ IsLatin(h.groupKeys[j])
            /\ GroupSize(h.grouped, h.groupKeys[i]) = GroupSize(h.grouped, h.groupKeys[j])
            => CompareWeights(CodeUnit, h.groupKeys[i], h.groupKeys[j], 1) < 0

\* Two keys that are canonically equivalent have groups of the same size:
\* they are in the order of their insertion, and in the other order when
\* inserted the other way round.
C22_InsertionOrderKept ==
    \E h \in Handlers :
        /\ HasSorted(h)
        /\ h.grouped.keys = <<HangulPrecomposed, HangulDecomposed>>
        /\ GroupSize(h.grouped, HangulPrecomposed) = GroupSize(h.grouped, HangulDecomposed)
        /\ h.groupKeys = <<HangulPrecomposed, HangulDecomposed>>
        /\ sortGroupKeys([h.grouped EXCEPT !.keys = <<HangulDecomposed, HangulPrecomposed>>])
              = <<HangulDecomposed, HangulPrecomposed>>

\* The larger group first, and A before B at equal size.
C22_Witness ==
    \E h \in Handlers :
        /\ HasSorted(h)
        /\ h.grouped.keys = <<"B", "A", "NoTag">>
        /\ GroupSize(h.grouped, "NoTag") = 1
        /\ h.groupKeys = <<"A", "B", "NoTag">>

-----------------------------------------------------------------------------
(* The groups of the states *)

StateGrouped(h) == h.kind = "list" /\ h.mode = "state" /\ h.pc # "rows"

\* The rows of the state, in the order of the input.
RowsInState(rows, name) ==
    LET test(r) == r.stateName = name
    IN SelectSeq(rows, test)

RECURSIVE SumOfSizes(_, _)
SumOfSizes(grouped, keys) ==
    IF keys = <<>> THEN 0
    ELSE GroupSize(grouped, Head(keys)) + SumOfSizes(grouped, Tail(keys))

\* The groups are a partition of the rows by the name of their state.
IsPartitionByState(grouped, rows) ==
    /\ ~grouped.threw
    /\ Range(grouped.keys) = {rows[n].stateName : n \in DOMAIN rows}
    /\ \A i, j \in DOMAIN grouped.keys : grouped.keys[i] = grouped.keys[j] => i = j
    /\ \A n \in DOMAIN grouped.keys :
          /\ grouped.rows[grouped.keys[n]] # <<>>
          /\ grouped.rows[grouped.keys[n]] = RowsInState(rows, grouped.keys[n])
    /\ \A n \in DOMAIN rows : GroupsOf(grouped, rows[n]) = {rows[n].stateName}
    /\ SumOfSizes(grouped, grouped.keys) = Len(rows)

\* C23: groupByState partitions the rows: every row is once in the group
\* of the name of its state and in no other, the rows keep their input
\* order inside a group, no group is empty and the sizes of the groups sum
\* to the number of the rows.
C23_PartitionByState ==
    \A h \in Handlers : StateGrouped(h) => IsPartitionByState(h.grouped, h.rows)

\* The same for the lists in which no state has the name of an inherited
\* property.
C23_PartitionByStatePlain ==
    \A h \in Handlers : StateGrouped(h) =>
        \/ \E n \in DOMAIN h.rows : h.rows[n].stateName \in ObjectPrototypeKeys
        \/ IsPartitionByState(h.grouped, h.rows)

\* A list with a row in the state "constructor" was grouped: the grouping
\* threw and no row is in a group.
C23_GroupingThrew ==
    \E h \in Handlers :
        /\ StateGrouped(h)
        /\ h.grouped.threw
        /\ Len(h.rows) = 2
        /\ h.rows[1].stateName = "Todo" /\ h.rows[2].stateName = "constructor"
        /\ \A n \in DOMAIN h.rows : GroupsOf(h.grouped, h.rows[n]) = {}

\* Three rows in two states are in two groups, in input order.
C23_Witness ==
    \E h \in Handlers :
        /\ StateGrouped(h)
        /\ Len(h.rows) = 3
        /\ h.rows[1].stateName = "Todo" /\ h.rows[2].stateName = "Unknown"
        /\ h.rows[3].stateName = "Todo"
        /\ h.grouped.keys = <<"Todo", "Unknown">>
        /\ h.grouped.rows["Todo"] = <<h.rows[1], h.rows[3]>>

-----------------------------------------------------------------------------
(* The two messages of a list *)

\* The chat.postMessage calls of a handler, in the order in which it made
\* them.
PostsOf(h) ==
    LET test(c) == c.call = "chat.postMessage"
    IN SelectSeq(h.log, test)

\* The list command has groups: it went on to its messages.
HasGroups(h) == h.kind = "list" /\ h.pc \notin {"rows", "rootPost"} /\ h.groupKeys # <<>>

\* The root message came back with a ts.
RootPosted(h) == h.rootTs # Undefined

KeysOfBlocks(blocks) == [n \in DOMAIN blocks |-> blocks[n].key]

\* C24: a list command with at least one group makes two chat posts, first
\* the summary, then one message in the thread of the ts of the summary with
\* the groups in the order of sortGroupKeys; when the summary post fails or
\* comes back without a ts, there is no second post.
C24_SummaryThenThread ==
    \A h \in Handlers : HasGroups(h) =>
        LET posts == PostsOf(h)
        IN /\ Len(posts) >= 1
           /\ posts[1].b = Undefined
           /\ posts[1].c = [total |-> Len(h.rows), groups |-> Len(h.grouped.keys)]
           /\ ~(posts[1].ok /\ RootPosted(h)) => Len(posts) = 1
           /\ posts[1].ok /\ RootPosted(h) /\ h.pc \in {"respond", "done"} =>
                 /\ Len(posts) = 2
                 /\ posts[2].b = h.rootTs
                 /\ \E k \in DOMAIN chat :
                       /\ chat[k].ts = h.rootTs
                       /\ chat[k].thread_ts = Undefined
                       /\ chat[k].text = ListRootText(h.mode)
                 /\ KeysOfBlocks(posts[2].c) = sortGroupKeys(h.grouped)
                 /\ \A n \in DOMAIN posts[2].c :
                       posts[2].c[n].rows = h.grouped.rows[posts[2].c[n].key]

\* A list of two groups is over: the summary and the message in its thread
\* are in the chat, the larger group first.
C24_Witness ==
    \E h \in Handlers :
        /\ HasGroups(h)
        /\ h.pc = "done"
        /\ h.grouped.keys = <<"B", "A">>
        /\ h.groupKeys = <<"A", "B">>
        /\ Len(PostsOf(h)) = 2
        /\ PostsOf(h)[2].ok
        /\ Len(chat) = 2
        /\ chat[2].thread_ts = chat[1].ts

\* The summary came back without a ts: the command answered with an error
\* and made no second post.
C24_NoTsWitness ==
    \E h \in Handlers :
        /\ HasGroups(h)
        /\ h.pc = "done"
        /\ Len(PostsOf(h)) = 1
        /\ PostsOf(h)[1].ok
        /\ ~RootPosted(h)
        /\ chat = <<>>

-----------------------------------------------------------------------------
(* The resolution of a handle token *)

IsResolving(h) == h.kind = "resolve" /\ h.pc # "token"

HasReturned(h) == h.kind = "resolve" /\ h.pc = "returned"

\* The token without the white space around it and the punctuation behind.
TokenText(h) == CleanToken(h.token)

\* The member is neither deleted nor a bot and one of its names is the
\* handle, letter case and surrounding white space aside.
IsNamed(m, handle) ==
    /\ ~m.deleted /\ ~m.is_bot
    /\ \E v \in {m.name, m.display_name, m.display_name_normalized, m.real_name,
                 m.real_name_normalized} :
          ToLowerCase(Trim(v)) = ToLowerCase(handle)

\* The page of the call holds a member of the handle.
HoldsMember(call, handle) == \E n \in DOMAIN call.b : IsNamed(call.b[n], handle)

\* The id of the first member of the handle on the page of the call.
FirstNamed(call, handle) ==
    call.b[CHOOSE n \in DOMAIN call.b :
              /\ IsNamed(call.b[n], handle)
              /\ \A m \in 1..(n - 1) : ~IsNamed(call.b[m], handle)].id

\* The call came back with a page without a member of the handle and with
\* a cursor to a next page.
GoesOn(call, handle) == call.ok /\ ~HoldsMember(call, handle) /\ call.c # ""

ResolvedAsClaimed(h) ==
    LET token == TokenText(h)
        handle == SubSeq(token, 2, Len(token))
        last == h.log[Len(h.log)]
    IN /\ Len(h.log) <= 5
       /\ \A k \in DOMAIN h.log : h.log[k].call = "users.list"
       /\ \A k \in 1..(Len(h.log) - 1) : GoesOn(h.log[k], handle)
       /\ h.pc = "usersList" =>
             /\ HandleOf(token) # Null
             /\ Len(h.log) < 5
             /\ \A k \in DOMAIN h.log : GoesOn(h.log[k], handle)
       /\ HasReturned(h) /\ MentionId(token) # Null =>
             h.log = <<>> /\ h.r.id = MentionId(token)
       /\ HasReturned(h) /\ MentionId(token) = Null /\ HandleOf(token) = Null =>
             h.log = <<>> /\ h.r.id = Null
       /\ HasReturned(h) /\ MentionId(token) = Null /\ HandleOf(token) # Null =>
             /\ h.log # <<>>
             /\ IF last.ok /\ HoldsMember(last, handle)
                THEN h.r.id = FirstNamed(last, handle)
                ELSE /\ h.r.id = Null
                     /\ ~last.ok \/ last.c = "" \/ Len(h.log) = 5
       /\ h.token = "<@W2|jun>," /\ HasReturned(h) => h.r.id = "W2"
       /\ h.token \in {"<@w2>", "jun", "@", ""} /\ HasReturned(h) => h.r.id = Null

\* C27: byHandleToken always terminates: a mention token returns its user
\* id without a directory call; a plain handle makes at most 5 page
\* requests, stops at the first page that holds a member of the handle who
\* is neither deleted nor a bot, and returns none when a call fails, when
\* there is no further page and when 5 pages held no such member.
C27_ResolveTerminates ==
    /\ [](\A h \in Handlers : IsResolving(h) => ResolvedAsClaimed(h))
    /\ <>(\A h \in Handlers : HasReturned(h))

\* Five pages were asked for the handle and none held it: none is returned.
C27_Witness ==
    \E h \in Handlers :
        /\ HasReturned(h)
        /\ h.token = "@jun"
        /\ Len(h.log) = 5
        /\ h.log[5].ok /\ h.log[5].c # ""
        /\ h.r.id = Null

\* The handle was found on the third page, by a display name in another
\* letter case.
C27_FoundWitness ==
    \E h \in Handlers :
        /\ HasReturned(h)
        /\ h.token = "@JUN;"
        /\ Len(h.log) = 3
        /\ h.log[3].b = <<Sean, Junior>>
        /\ h.r.id = "W4"

-----------------------------------------------------------------------------
(* The assignees of a list command *)

\* The list command has parsed its text.
HasParsed(h) ==
    /\ h.kind = "list" /\ "command" \in DOMAIN h
    /\ h.log # <<>> /\ h.log[1].call = "ack" /\ h.log[1].ok

\* The tokens have all been resolved.
TokensResolved(h) == HasParsed(h) /\ h.tokensLeft = <<>>

Requester(h) == h.command.user_id

ResolvedIds(h) == {id \in Range(h.resolved) : Truthy(id)}

\* The calls to the tracker.
TrackerQueries(h) ==
    {k \in DOMAIN h.log : h.log[k].call \in {"linear.viewer", "linear.users", "linear.issues",
                                              "issue.assignee", "issue.state"}}

\* The slack users whose issues were asked for.
QueriedFor(h) ==
    {id \in {"W1", "W2", "W3", "W4", "W8", "W9", "B7"} :
        \E k \in Calls(h, "linear.issues") :
            h.log[k].a = ListLinearUserOf(ListEmailOf(id))}

\* C25: with assignee tokens the requester is an assignee only when a token
\* resolved to the requester; when no token resolved the command answers
\* with an ephemeral error and makes no tracker query; without tokens the
\* requester is the only assignee.
C25_AssigneeFilter ==
    \A h \in Handlers : TokensResolved(h) =>
        /\ h.assigneeTokens # <<>> =>
              /\ Range(h.assigneeSlackIds) = ResolvedIds(h)
              /\ Requester(h) \in Range(h.assigneeSlackIds) => Requester(h) \in ResolvedIds(h)
              /\ QueriedFor(h) \subseteq ResolvedIds(h)
        /\ h.assigneeTokens # <<>> /\ ResolvedIds(h) = {} =>
              /\ TrackerQueries(h) = {}
              /\ Calls(h, "users.info") = {}
              /\ Calls(h, "chat.postMessage") = {}
              /\ h.pc = "respond" => (h.reply \in {"not found", "error"} /\ ResponseType(h.reply) = "ephemeral")
              /\ h.pc = "done" => Calls(h, "respond") # {}
              /\ \A k \in Calls(h, "respond") :
                    /\ h.log[k].c = "ephemeral"
                    /\ k = Len(h.log) \/ ~h.log[k].ok
              /\ Calls(h, "respond") # {} =>
                    LET first == CHOOSE k \in Calls(h, "respond") :
                                     \A m \in Calls(h, "respond") : k <= m
                    IN h.log[first].a = "not found" /\ h.log[first].b = h.assigneeTokens
        /\ h.assigneeTokens = <<>> =>
              /\ h.assigneeSlackIds = <<Requester(h)>>
              /\ QueriedFor(h) \subseteq {Requester(h)}
        /\ h.command.text \in {"", "QA", "tag QA"} => h.assigneeTokens = <<>>
        /\ h.command.text = "@jun,@ghost" => h.assigneeTokens = <<"@jun", "@ghost">>

\* The handle of nobody was given: the command answered that it found
\* nobody and asked the tracker nothing.
C25_Witness ==
    \E h \in Handlers :
        /\ TokensResolved(h)
        /\ h.pc = "done"
        /\ h.command.text = "@ghost"
        /\ h.resolved = <<Null>>
        /\ TrackerQueries(h) = {}
        /\ h.log[Len(h.log)] = Call("respond", "not found", <<"@ghost">>, "ephemeral", TRUE)

\* Without a token the issues of the requester were listed.
C25_RequesterWitness ==
    \E h \in Handlers :
        /\ TokensResolved(h)
        /\ h.pc = "done"
        /\ h.command.text = ""
        /\ QueriedFor(h) = {"W1"}
        /\ Len(chat) = 2

-----------------------------------------------------------------------------
(* The tokens that were not resolved *)

\* The command is over and none of its calls has thrown.
OverWithoutFault(h) == TokensResolved(h) /\ h.pc = "done" /\ AllCallsOk(h)

\* The token is named in an answer of the command.
IsNamedInAnswer(h, token) ==
    \E k \in Calls(h, "respond") : h.log[k].ok /\ token \in Range(h.log[k].b)

\* C26: every handle token that is given and cannot be resolved is named in
\* an error or a warning of the command, also when other tokens of the
\* command did resolve.
C26_UnresolvedIsNamed ==
    \A h \in Handlers : OverWithoutFault(h) =>
        \A n \in DOMAIN h.assigneeTokens :
            h.resolved[n] = Null => IsNamedInAnswer(h, h.assigneeTokens[n])

\* When no token of the command resolved, every token is named in the
\* answer.
C26_NamedWhenNoneResolved ==
    \A h \in Handlers : OverWithoutFault(h) /\ ResolvedIds(h) = {} =>
        \A n \in DOMAIN h.assigneeTokens : IsNamedInAnswer(h, h.assigneeTokens[n])

\* @jun resolved and @ghost did not: the issues of jun were listed and no
\* answer names @ghost.
C26_DroppedSilently ==
    \E h \in Handlers :
        /\ OverWithoutFault(h)
        /\ h.command.text = "@jun,@ghost"
        /\ h.resolved = <<"W2", Null>>
        /\ Calls(h, "respond") = {}
        /\ Len(PostsOf(h)) = 2

-----------------------------------------------------------------------------
(* The tag of the tag list *)

\* The tag list command with a text that is one tag name.
TagNameOnly(h) ==
    /\ HasParsed(h)
    /\ h.command.modeOverride = "tag"
    /\ h.command.text = "QA"

\* The message in the thread has been sent.
ThreadPosts(h) == {k \in Calls(h, "chat.postMessage") : h.log[k].b # Undefined}

\* C29: the tag list command with a tag name lists only the group of that
\* tag: no group of another key and no row without that tag.
C29_TagNameFilters ==
    \A h \in Handlers : TagNameOnly(h) =>
        /\ h.requestedTag = "QA"
        /\ \A k \in ThreadPosts(h) :
              /\ KeysOfBlocks(h.log[k].c) = <<"QA">>
              /\ \A n \in DOMAIN h.log[k].c :
                    \A m \in DOMAIN h.log[k].c[n].rows :
                        "QA" \in TagSet(h.log[k].c[n].rows[m])

\* With the word tag in front of the name the list holds only the group of
\* the name.
C29_TagWordFilters ==
    \A h \in Handlers : HasParsed(h) /\ h.command.text = "tag QA" =>
        /\ h.mode = "tag" /\ h.requestedTag = "QA"
        /\ \A k \in ThreadPosts(h) :
              /\ KeysOfBlocks(h.log[k].c) = <<"QA">>
              /\ \A n \in DOMAIN h.log[k].c :
                    \A m \in DOMAIN h.log[k].c[n].rows :
                        "QA" \in TagSet(h.log[k].c[n].rows[m])

\* The tag list command with the text QA listed the groups of all tags,
\* with the row that has no tag.
C29_AllGroupsListed ==
    \E h \in Handlers :
        /\ TagNameOnly(h)
        /\ h.pc = "done"
        /\ h.requestedTag = Undefined
        /\ \E k \in ThreadPosts(h) :
              /\ h.log[k].ok
              /\ KeysOfBlocks(h.log[k].c) = <<"NoTag", "QA">>

\* The filter was given with the word tag: only the group QA was listed.
C29_FilteredWitness ==
    \E h \in Handlers :
        /\ HasParsed(h) /\ h.command.text = "tag QA"
        /\ h.pc = "done"
        /\ h.rows # <<>>
        /\ \E k \in ThreadPosts(h) : h.log[k].ok /\ KeysOfBlocks(h.log[k].c) = <<"QA">>

-----------------------------------------------------------------------------
(* The create-issue command without a team id *)

\* The command runs in a process without a team id.
Unconfigured(h) == h.kind = "command" /\ ~Truthy(h.teamId)

\* The calls of the handler to Slack's and Linear's API.
ExternalCalls(h) ==
    {k \in DOMAIN h.log : h.log[k].call \notin {"ack", "respond"}}

\* The command has answered that the team id is missing.
AnsweredNoTeamId(h) ==
    /\ Unconfigured(h)
    /\ h.pc = "done"
    /\ h.reply = "no team id"

\* C28: the create-issue command of a process without a team id has made no
\* call to Slack's or Linear's API when it answers that the configuration
\* is missing.
C28_AbortsBeforeAnyCall ==
    \A h \in Handlers : Unconfigured(h) /\ h.reply = "no team id" =>
        ExternalCalls(h) = {}

\* Without a team id no team is asked for, no issue is created and nothing
\* is posted; every command ends with a respond, and the answer that the
\* team id is missing comes after the lookups of the requester.
C28_AbortsBeforeIssueCreation ==
    /\ chat = InitialChat
    /\ threadMapFile = FileOf("absent", EmptyMap)
    /\ \A h \in Handlers : Unconfigured(h) =>
          /\ \A k \in ExternalCalls(h) :
                h.log[k].call \in {"users.info", "linear.viewer", "linear.users"}
          /\ h.pc = "done" /\ h.log[1].ok => h.log[Len(h.log)].call = "respond"
          /\ h.reply = "no team id" =>
                /\ Calls(h, "users.info") # {}
                /\ Calls(h, "linear.users") # {}
                /\ AllCallsOk([h EXCEPT !.log = SubSeq(h.log, 1, Len(h.log) - 1)])
                      \/ h.pc # "done"

\* The answer that the team id is missing, after users.info and the two
\* queries of getLinearUserByEmail.
C28_LookupsFirst ==
    \E h \in Handlers :
        /\ AnsweredNoTeamId(h)
        /\ h.teamId = Undefined
        /\ Len(h.log) = 5
        /\ h.log[2].call = "users.info" /\ h.log[2].ok
        /\ h.log[3].call = "linear.viewer" /\ h.log[3].ok
        /\ h.log[4].call = "linear.users" /\ h.log[4].ok
        /\ h.log[5] = Call("respond", "no team id", "", "", TRUE)

\* The requester has no email in Slack: the command answers that, and the
\* missing team id is not reported.
C28_OtherErrorFirst ==
    \E h \in Handlers :
        /\ Unconfigured(h)
        /\ h.pc = "done" /\ AllCallsOk(h)
        /\ h.title # ""
        /\ h.reply # "no team id"

-----------------------------------------------------------------------------
(* The change of the assignee *)

\* The delivery of an issue update with a changed assignee and no changed
\* state.
AssigneeChanged(body) ==
    /\ body.type = "Issue" /\ body.action = "update"
    /\ body.updatedFrom.assigneeId # Undefined
    /\ body.data.assigneeId # body.updatedFrom.assigneeId
    /\ body.updatedFrom.stateId = Undefined

\* The identifier of the issue of the delivery.
IdentifierOf(body) ==
    LET issue == CHOOSE x \in LinearIssues : x.id = body.data.id
    IN issue.identifier

\* The store or the search gives a thread for the issue.
ResolvesToThread(body) ==
    \/ StoreGet(threadMapFile, IdentifierOf(body)) # UndefinedAnchor
    \/ SearchMessages(chat, IdentifierOf(body)) # NoMatch

\* The name of the new assignee of the delivery.
NewAssigneeName(body) ==
    IF \E u \in LinearUsers : u.id = body.data.assigneeId
    THEN LET u == CHOOSE u \in LinearUsers : u.id = body.data.assigneeId IN u.name
    ELSE "Unassigned"

\* The handler made one post, in a thread, with the name of the new
\* assignee.
PostedAssigneeOnce(h) ==
    /\ Cardinality(Calls(h, "chat.postMessage")) = 1
    /\ \A k \in Calls(h, "chat.postMessage") :
          /\ Truthy(h.log[k].a) /\ Truthy(h.log[k].b)
          /\ h.log[k].c = AssigneeChangeText(NewAssigneeName(h.req))

\* The handler of a changed assignee is over and none of its calls threw.
AssigneeHandled(h) ==
    /\ h.kind = "webhook" /\ h.pc = "done"
    /\ AssigneeChanged(h.req)
    /\ ResolvesToThread(h.req)
    /\ AllCallsOk(h)

\* C30: for a delivery of an issue update whose assigneeId changed, to a
\* user or to nobody, and whose stateId did not, with a thread for the
\* issue, the handler makes exactly one chat post, in the thread, naming the
\* new assignee or 'Unassigned'.
C30_AssigneeChangePosted ==
    \A h \in Handlers : AssigneeHandled(h) => PostedAssigneeOnce(h)

\* The same for the changes to a user.
C30_NewAssigneePosted ==
    \A h \in Handlers : AssigneeHandled(h) /\ Truthy(h.req.data.assigneeId) =>
        PostedAssigneeOnce(h)

\* The assignee of 1SW-42 was taken away: the handler ended on entry, with
\* no lookup and no post.
C30_UnassignIgnored ==
    \E h \in Handlers :
        /\ AssigneeHandled(h)
        /\ h.req.data.assigneeId = Null
        /\ h.req.updatedFrom.assigneeId = "U1"
        /\ h.branch = "ignored"
        /\ h.log = Acknowledge(<<>>)

\* 1SW-42 went from U2 to U1: one post in its thread with the name of U1.
C30_ReassignedWitness ==
    \E h \in Handlers :
        /\ AssigneeHandled(h)
        /\ h.req.data.assigneeId = "U1"
        /\ h.req.updatedFrom.assigneeId = "U2"
        /\ PostedAssigneeOnce(h)
        /\ chat[Len(chat)].text = "*assignee changed*: Ann Lee"

-----------------------------------------------------------------------------
(* Empty brackets in the run of tags *)

\* title[a..b] is a bracket: "[", any characters other than "]", none
\* included, and "]".
IsBracket(title, a, b) ==
    /\ 1 <= a /\ a < b /\ b <= Len(title)
    /\ Char(title, a) = "[" /\ Char(title, b) = "]"
    /\ \A k \in (a + 1)..(b - 1) : Char(title, k) # "]"

\* Everything in front of position i is white space or lies in a bracket
\* that ends in front of i.
OnlyBracketsBefore(title, i) ==
    \A k \in 1..(i - 1) :
        \/ Char(title, k) \in WhiteSpace
        \/ \E a \in 1..k, b \in k..(i - 1) : IsBracket(title, a, b)

\* The brackets of the leading run, the empty ones included.
RunBrackets(title) ==
    {g \in (1..Len(title)) \X (1..Len(title)) :
        IsBracket(title, g[1], g[2]) /\ OnlyBracketsBefore(title, g[1])}

RunBracketSeq(title) ==
    LET G == RunBrackets(title)
    IN [n \in 1..Cardinality(G) |->
          CHOOSE g \in G : Cardinality({f \in G : f[1] < g[1]}) = n - 1]

\* The trimmed contents of the brackets of the run, without the empty ones,
\* from left to right.
RunTags(title) ==
    LET gs == RunBracketSeq(title)
    IN SelectSeq([n \in DOMAIN gs |-> Trim(SubSeq(title, gs[n][1] + 1, gs[n][2] - 1))],
                 NotEmpty)

\* The run holds a bracket with nothing in it.
HasEmptyBracket(title) == \E g \in RunBrackets(title) : g[2] = g[1] + 1

\* C34: the tags of a title are, in order, the trimmed contents of every
\* bracket of its leading run that is not empty after trimming; a bracket
\* that is empty or holds only white space is left out and the tags of the
\* brackets before and after it are kept.
C34_EmptyBracketsDropped ==
    \A h \in Handlers : IsRow(h) => h.tags = RunTags(h.title)

\* The same for the titles whose run has no bracket with nothing in it: a
\* bracket of white space is left out and the tags around it are kept.
C34_BlankBracketsDropped ==
    \A h \in Handlers : IsRow(h) /\ ~HasEmptyBracket(h.title) =>
        h.tags = RunTags(h.title)

\* "[]" ended the run: the tag of the bracket after it is lost.
C34_EmptyBracketEndsRun ==
    \E h \in Handlers :
        /\ IsRow(h)
        /\ h.title = "[A][][B] x"
        /\ h.tags = <<"A">>
        /\ RunTags(h.title) = <<"A", "B">>

\* A bracket of white space was left out and the tags around it were kept.
C34_BlankWitness ==
    \E h \in Handlers :
        IsRow(h) /\ h.title = "[A] [ ] [B] x" /\ h.tags = <<"A", "B">>

-----------------------------------------------------------------------------
(* The group of the rows without tags, and rows held twice *)

\* The grouping by tags has given a result.
HasTagGroups(h) == IsGrouped(h) /\ ~h.grouped.threw

\* The rows of the group, none when there is no such group.
GroupRowsOf(grouped, key) ==
    IF \E n \in DOMAIN grouped.keys : grouped.keys[n] = key
    THEN grouped.rows[key] ELSE <<>>

\* No row is held twice in the sequence.
NoRowTwice(rows) ==
    \A i, j \in DOMAIN rows : rows[i] = rows[j] => i = j

SentinelHoldsUntaggedOnly(grouped) ==
    \A k \in DOMAIN GroupRowsOf(grouped, NoTagKey) :
        GroupRowsOf(grouped, NoTagKey)[k].tags = <<>>

NoGroupHoldsRowTwice(grouped) ==
    \A n \in DOMAIN grouped.keys : NoRowTwice(grouped.rows[grouped.keys[n]])

\* C38: in the result of the grouping by tags the group NoTag holds only
\* rows without tags and no group holds a row twice, also for rows whose
\* tag is the text NoTag and rows with a repeated tag.
C38_SentinelAndNoDuplicates ==
    \A h \in Handlers : HasTagGroups(h) =>
        /\ SentinelHoldsUntaggedOnly(h.grouped)
        /\ NoGroupHoldsRowTwice(h.grouped)

\* The same for the lists in which no row is tagged NoTag and no row repeats
\* a tag.
C38_PlainTags ==
    \A h \in Handlers :
        /\ HasTagGroups(h)
        /\ \A n \in DOMAIN h.rows :
              NoTagKey \notin TagSet(h.rows[n]) /\ ~HasRepeatedTag(h.rows[n])
        => /\ SentinelHoldsUntaggedOnly(h.grouped)
           /\ NoGroupHoldsRowTwice(h.grouped)

\* A row without tags and a row tagged NoTag are in the same group.
C38_TaggedRowInSentinel ==
    \E h \in Handlers :
        /\ HasTagGroups(h) /\ h.requestedTag = Undefined
        /\ Len(h.rows) = 2
        /\ h.rows[1].tags = <<>> /\ h.rows[2].tags = <<"NoTag">>
        /\ h.grouped.keys = <<NoTagKey>>
        /\ h.grouped.rows[NoTagKey] = h.rows

\* Without a filter the row tagged A twice is twice in the group A.
C38_RowTwice ==
    \E h \in Handlers :
        /\ HasTagGroups(h) /\ h.requestedTag = Undefined
        /\ Len(h.rows) = 1 /\ h.rows[1].tags = <<"A", "A">>
        /\ h.grouped.rows["A"] = <<h.rows[1], h.rows[1]>>

-----------------------------------------------------------------------------
(* No retry, and the posts of the bot that come back *)

\* No call is made twice by the handler.
NoCallTwice(h) ==
    \A i, j \in DOMAIN h.log : h.log[i].call = h.log[j].call => i = j

\* A call that threw is the last call of the handler, and the handler is
\* over.
FailureIsTerminal(h) ==
    \A k \in DOMAIN h.log : ~h.log[k].ok => k = Len(h.log) /\ h.pc = "done"

\* C33: a message handler makes at most one createComment call and a
\* webhook handler at most one chat.postMessage call; no call of a handler
\* is made twice, and a call that failed ends the handler.
C33_NoRetry ==
    \A h \in Handlers : IsMessage(h) \/ IsWebhook(h) =>
        /\ IsMessage(h) => Cardinality(Calls(h, "linear.createComment")) <= 1
        /\ IsWebhook(h) => Cardinality(Calls(h, "chat.postMessage")) <= 1
        /\ NoCallTwice(h)
        /\ FailureIsTerminal(h)

\* A post of a webhook handler and a createComment of a message handler
\* failed: each was made once and nothing was posted or created.
C33_Witness ==
    \E w \in Handlers, m \in Handlers :
        /\ IsWebhook(w) /\ w.pc = "done"
        /\ Calls(w, "chat.postMessage") = {Len(w.log)}
        /\ ~w.log[Len(w.log)].ok
        /\ IsMessage(m) /\ m.pc = "done"
        /\ Calls(m, "linear.createComment") = {Len(m.log)}
        /\ ~m.log[Len(m.log)].ok
        /\ BotMessages = {}
        /\ comments = <<>>

\* C35: a post of the webhook handler that Slack delivers to the message
\* handler is dropped on entry, without any call, and is never the message
\* of a tracker comment; the webhook handlers post at most once each.
C35_EchoIsDropped ==
    /\ \A h \in Handlers : IsEcho(h) => h.pc = "done" /\ h.log = <<>>
    /\ \A k \in DOMAIN comments : ~Truthy(comments[k].message.bot_id)
    /\ \A h \in Handlers : IsWebhook(h) => Cardinality(Calls(h, "chat.postMessage")) <= 1
    /\ Cardinality(BotMessages) <= OkCallCount({h \in Handlers : IsWebhook(h)}, "chat.postMessage")

\* The post for a state change in the thread of 1SW-42 came back to the
\* message handler and no comment was created.
C35_Witness ==
    \E w \in Handlers, e \in Handlers :
        /\ IsWebhook(w) /\ w.branch = "state" /\ OkCalls(w, "chat.postMessage") # {}
        /\ IsEcho(e) /\ e.pc = "done"
        /\ e.message.text = w.messageText
        /\ Truthy(e.message.thread_ts)
        /\ comments = <<>>

-----------------------------------------------------------------------------
(* State and assignee changed at once *)

\* The delivery of an issue update with a changed state and a changed
\* assignee.
BothChanged(body) ==
    /\ body.type = "Issue" /\ body.action = "update"
    /\ Truthy(body.data.stateId) /\ Truthy(body.updatedFrom.stateId)
    /\ body.data.stateId # body.updatedFrom.stateId
    /\ body.updatedFrom.assigneeId # Undefined
    /\ body.data.assigneeId # body.updatedFrom.assigneeId

\* The name of the new state of the delivery.
NewStateName(body) ==
    LET st == CHOOSE x \in LinearStates : x.id = body.data.stateId IN st.name

\* C36: for a delivery that changes the state and the assignee the handler
\* asks for the state and not for the assignee, every post it makes names
\* the new state, and when the issue has a thread and no call fails it makes
\* exactly one post.
C36_StateChangeOnly ==
    \A h \in Handlers : IsWebhook(h) /\ BothChanged(h.req) =>
        /\ h.branch = "state"
        /\ Calls(h, "linear.issue.assignee") = {}
        /\ Cardinality(Calls(h, "chat.postMessage")) <= 1
        /\ \A k \in Calls(h, "chat.postMessage") :
              h.log[k].c = StateChangeText(NewStateName(h.req))
        /\ h.pc = "done" /\ AllCallsOk(h) /\ ResolvesToThread(h.req) =>
              Cardinality(Calls(h, "chat.postMessage")) = 1

\* 1SW-42 went to Done and to U1 in one update: the thread got the one post
\* of the state.
C36_Witness ==
    \E h \in Handlers :
        /\ IsWebhook(h) /\ BothChanged(h.req)
        /\ h.req.data.assigneeId = "U1"
        /\ h.pc = "done" /\ AllCallsOk(h)
        /\ Cardinality(Calls(h, "chat.postMessage")) = 1
        /\ chat[Len(chat)].text = "*state changed*: Done"
        /\ Cardinality(BotMessages) = 1

-----------------------------------------------------------------------------
(* The summary message of a created issue fails *)

\* The positions of the calls that post the summary message.
RootPostCalls(h) == {k \in Calls(h, "chat.postMessage") : h.log[k].b = Undefined}

\* The command created its issue, and the post of its summary message threw
\* or came back without a ts.
RootPostFailed(h) ==
    /\ IsCommand(h)
    /\ h.issueId # ""
    /\ RootPostCalls(h) # {}
    /\ h.rootTs = Undefined

\* The store calls of the webhook handlers for the identifier.
WrittenBackFor(issueIdentifier) ==
    \E w \in Handlers :
        IsWebhook(w) /\ \E k \in Calls(w, "store.set") : w.log[k].a = issueIdentifier

\* C37: when the post of the summary message throws or comes back without
\* a ts after the issue was created, the command writes no mapping and
\* posts no thread message, answers with its error, and makes no further
\* call to the tracker: the issue stays.
C37_FailedSummaryPost ==
    \A h \in Handlers : RootPostFailed(h) =>
        /\ Calls(h, "store.set") = {}
        /\ Cardinality(Calls(h, "chat.postMessage")) = 1
        /\ h.pc \in {"respond", "done"}
        /\ h.reply = "error"
        /\ \A k \in DOMAIN h.log : \A r \in RootPostCalls(h) :
              k > r => h.log[k].call = "respond" /\ h.log[k].a = "error"
        /\ h.pc = "done" => Calls(h, "respond") = {Len(h.log)}
        /\ \E issue \in LinearIssuesNow : issue.id = h.issueId
        /\ StoreGet(threadMapFile, h.issueIdentifier) # UndefinedAnchor
              => WrittenBackFor(h.issueIdentifier)

\* The post of the summary message threw after 1SW-43 was created: the
\* requester got the error, the chat and the store are as before.
C37_Witness ==
    \E h \in Handlers :
        /\ RootPostFailed(h) /\ h.pc = "done"
        /\ \A k \in RootPostCalls(h) : ~h.log[k].ok
        /\ h.log[Len(h.log)] = Call("respond", "error", "", "", TRUE)
        /\ h.issueIdentifier = "1SW-43"
        /\ chat = InitialChat
        /\ threadMapFile = FileOf("absent", EmptyMap)

\* The post came back without a ts.
C37_NoTsWitness ==
    \E h \in Handlers :
        /\ RootPostFailed(h) /\ h.pc = "done"
        /\ \A k \in RootPostCalls(h) : h.log[k].ok
        /\ Len(chat) = Len(InitialChat) + 1
        /\ threadMapFile = FileOf("absent", EmptyMap)

-----------------------------------------------------------------------------
(* The root message after an action *)

\* The root message of the issue as the chat holds it.
RootNow == chat[1]

\* The field of the section of fields of the root message (the third
\* block): 1 assignee, 2 build, 3 state.
RootField(n) == RootNow.blocks[3].fields[n]

\* The message holds the mark_done button.
HoldsMarkDone(m) ==
    \E n \in DOMAIN m.blocks :
        "elements" \in DOMAIN m.blocks[n] /\ "mark_done" \in Range(m.blocks[n].elements)

\* The action is over, it is the only one, none of its calls threw, and it
\* mutated the tracker and sent its update of the root message.
ActedAlone(h) ==
    /\ IsAction(h) /\ h.pc = "done"
    /\ BagCardinality(events) = 1
    /\ AllCallsOk(h)
    /\ Calls(h, "linear.updateIssue") # {}
    /\ \E k \in Calls(h, "chat.update") : h.log[k].a = RootNow.ts

\* The blocks other than the section of fields are as the command rendered
\* them, but for the elements of the block of the mark_done button.
OtherBlocksUnchanged ==
    /\ Len(RootNow.blocks) = Len(RenderedRoot.blocks)
    /\ \A n \in DOMAIN RootNow.blocks :
          n \notin {3, 9} => RootNow.blocks[n] = RenderedRoot.blocks[n]
    /\ RootField(2) = RenderedRoot.blocks[3].fields[2]

\* C31: after a successful assign action the assignee field of the root
\* message shows the new assignee; after a successful mark_done its state
\* field shows the done state and the message that held the mark_done
\* button holds it no more; the other fields and blocks are unchanged.
C31_RootMessagePatched ==
    \A h \in Handlers : ActedAlone(h) =>
        /\ h.name \in {"assign_to_me_btn", "assign_to_user"} =>
              /\ RootField(1) = AssigneeField(h.userName)
              /\ RootField(3) = RenderedRoot.blocks[3].fields[3]
              /\ RootNow.blocks[9] = RenderedRoot.blocks[9]
        /\ h.name = "mark_done" =>
              /\ RootField(3) = StateField(h.doneState.name)
              /\ RootField(1) = RenderedRoot.blocks[3].fields[1]
              /\ ~HoldsMarkDone(RootNow)
        /\ OtherBlocksUnchanged

\* What the actions do to the root message: its blocks stay as the command
\* rendered them, whatever the action and its outcome; only its text is
\* replaced.
C31_BlocksNeverPatched ==
    /\ RootNow.blocks = RenderedRoot.blocks
    /\ RootNow.ts = RenderedRoot.ts
    /\ RootNow.text \in
          {RenderedRoot.text, IssueDoneText, AssigneeChangedText("Ann Lee"),
           AssigneeChangedText("Bob Ray"), IssueDoneStateText("Done"),
           IssueDoneStateText("Shipped")}

\* Bob assigned the issue to himself: the tracker was updated and the root
\* message sent back, with the assignee field still naming Ann.
C31_AssigneeFieldStale ==
    \E h \in Handlers :
        /\ ActedAlone(h)
        /\ h.name = "assign_to_me_btn" /\ h.user = "W2"
        /\ h.userName = "Bob Ray"
        /\ RootField(1) = AssigneeField("Ann Lee")
        /\ RootNow.text = AssigneeChangedText("Bob Ray")

\* The issue was marked done: the state field still says Todo and the
\* button is still there.
C31_ButtonStays ==
    \E h \in Handlers :
        /\ ActedAlone(h)
        /\ h.name = "mark_done" /\ h.doneState.name = "Done"
        /\ RootField(3) = StateField("Todo")
        /\ HoldsMarkDone(RootNow)
        /\ RootNow.text = IssueDoneStateText("Done")

\* The positions of the chat calls of the handler.
ChatCalls(h) == Calls(h, "chat.update") \cup Calls(h, "chat.postMessage")

\* The handler made a call that answers the user.
AnswersUser(h) ==
    \E k \in DOMAIN h.log : h.log[k].call \in {"respond", "chat.postEphemeral", "views.open"}

\* C32: in every action every chat.update and chat.postMessage comes after
\* the updateIssue call, which returned; a handler whose updateIssue threw,
\* or that found no user, no email or no done state, has made no chat call;
\* no handler answers the user with an error; and the chat is as it was
\* as long as no updateIssue has returned.
C32_MutationBeforeChat ==
    /\ \A h \in Handlers : IsAction(h) =>
          /\ \A k \in ChatCalls(h) :
                \E j \in OkCalls(h, "linear.updateIssue") : j < k
          /\ Cardinality(Calls(h, "linear.updateIssue")) <= 1
          /\ OkCalls(h, "linear.updateIssue") = {} => ChatCalls(h) = {}
          /\ ~AnswersUser(h)
    /\ (\A h \in Handlers : IsAction(h) => OkCalls(h, "linear.updateIssue") = {})
          => chat \in {<<RenderedRoot>>, <<RenderedRoot, RenderedThreadMessage>>}

\* One mark_done went through to its last update; another ended at a
\* failed updateIssue without a chat call.
C32_Witness ==
    \E h \in Handlers, g \in Handlers :
        /\ IsAction(h) /\ h.name = "mark_done" /\ h.pc = "done" /\ AllCallsOk(h)
        /\ Cardinality(Calls(h, "chat.update")) = 2
        /\ Cardinality(Calls(h, "chat.postMessage")) = 1
        /\ IsAction(g) /\ g.pc = "done"
        /\ Calls(g, "linear.updateIssue") = {Len(g.log)}
        /\ ~g.log[Len(g.log)].ok

\* An assign action of a user without a Linear account ended without a
\* tracker mutation and without a chat call.
C32_UnresolvedWitness ==
    \E g \in Handlers :
        /\ IsAction(g) /\ g.name = "assign_to_me_btn" /\ g.user = "W4"
        /\ g.pc = "done" /\ AllCallsOk(g)
        /\ Calls(g, "linear.updateIssue") = {}
        /\ ChatCalls(g) = {}
        /\ Len(g.log) = 4

-----------------------------------------------------------------------------
(* Two replies in one issue thread *)

\* What people write in the thread of the issue 1SW-42.
ReplyTexts == {"looks good", "ship it"}

\* The message event of a reply: it carries the ts Slack gave the message.
ReplyEvent(text, user, ts) ==
    SlackMessage("C1", "100.1", text, user, Undefined, Undefined) @@ [ts |-> ts]

\* Someone replies in the thread; Slack stores the reply and delivers the
\* event, and app.message runs to its first await.
ThreadReplyReceive ==
    /\ BagCardinality(events) < MaxEvents
    /\ \E text \in ReplyTexts, user \in {"W1", "W2"} :
          LET ts == SlackTs(Len(chat) + 1)
          IN /\ Spawn(MessageEntry(ReplyEvent(text, user, ts)))
             /\ chat' = Append(chat,
                   [channel |-> "C1", ts |-> ts, thread_ts |-> "100.1",
                    text |-> text, bot_id |-> Undefined])
    /\ UNCHANGED <<threadMapFile, comments>>

\* The message handlers of the replies, each one going on at any time after
\* the await it is at.
NextReplies ==
    \/ ThreadReplyReceive
    \/ \E h \in Handlers : MessageReplies(h)
    \/ \E h \in Handlers : MessageIssues(h)
    \/ \E h \in Handlers : MessageUserInfo(h)
    \/ \E h \in Handlers : MessageComment(h)

SpecReplies == Init /\ [][NextReplies]_vars

\* The place of the message with this ts in the chat: Slack delivers the
\* replies in this order.
DeliveryIndex(ts) == CHOOSE k \in DOMAIN chat : chat[k].ts = ts

\* C39: of two replies delivered to the same issue thread the comment of
\* the one delivered first is created first, in every interleaving of their
\* handlers.
C39_CommentsInDeliveryOrder ==
    \A i \in DOMAIN comments, j \in DOMAIN comments :
        /\ comments[i].message.thread_ts = comments[j].message.thread_ts
        /\ DeliveryIndex(comments[i].message.ts) < DeliveryIndex(comments[j].message.ts)
        => i < j

\* What the handlers do keep: a reply has at most one comment, on the issue
\* of its thread, with its own text, and only after its handler made its
\* three lookups.
C39_OneCommentPerReply ==
    /\ \A i \in DOMAIN comments, j \in DOMAIN comments :
          comments[i].message.ts = comments[j].message.ts => i = j
    /\ \A i \in DOMAIN comments :
          /\ comments[i].issueId = "I1"
          /\ \E h \in Handlers :
                /\ IsMessage(h) /\ h.message = comments[i].message /\ h.pc = "done"
                /\ Len(h.log) = 4 /\ AllCallsOk(h)
                /\ \E u \in SlackUsers :
                      /\ u.id = h.message.user
                      /\ comments[i].body = RelayedCommentBody(h.message.text, UserNameOf(u))

\* Both replies have their comment, every call of both handlers returned,
\* and the comment of the reply delivered second is the first one.
C39_Overtaken ==
    /\ Len(comments) = 2
    /\ DeliveryIndex(comments[2].message.ts) < DeliveryIndex(comments[1].message.ts)
    /\ comments[1].message.text = "ship it"
    /\ comments[2].message.text = "looks good"
    /\ \A h \in Handlers : h.pc = "done" /\ AllCallsOk(h)
====
